---------------------------- MODULE Spec2Model ----------------------------
(***************************************************************************)
(* Model of etl/backtest_mvp.py (IC + layer returns + Top-N portfolio NAV) *)
(* together with the connection handling of common/db.py.                  *)
(*                                                                         *)
(* Python strings are sequences of one-character strings (a date literal   *)
(* is the one-element sequence of its day number, 0 for a literal that     *)
(* strptime rejects), SQL NULL and Python None are the empty tuple NULL,   *)
(* and every nullable number of the database (INT, FLOAT, DECIMAL) is an   *)
(* exact rational <<numerator, denominator>> (reduced, denominator > 0).   *)
(* Trade dates are day numbers.                                            *)
(* Column names are abbreviated: "f" stands for total_score, "g" for       *)
(* total_score_ind (numeric score columns), "c" for ts_code (a VARCHAR     *)
(* column of the score table) and "h" for score_profit (a candidate of     *)
(* --factor ALL that the score table of the model does not have).          *)
(***************************************************************************)
EXTENDS Integers, Sequences, FiniteSets, TLC

NULL == <<>>

\* ------------------------------------------------------------------ bounds
MaxDate == 3
NumCodes == 2
MaxRuns == 2
MaxFaults == 1
MaxCross == 4
MaxVal == 3
MaxLayers == 4

Dates == 1..MaxDate
Codes == 1..NumCodes

\* DATEADD(DAY, 400, @end) / dt.timedelta(days=400)
LookaheadDays == 400

\* ------------------------------------------------------------ arithmetic
Abs(x) == IF x < 0 THEN -x ELSE x

RECURSIVE Gcd(_, _)
Gcd(a, b) == IF b = 0 THEN a ELSE Gcd(b, a % b)

\* the rational n/d in lowest terms, d > 0
Rat(n, d) ==
    LET g == Gcd(Abs(n), Abs(d))
        s == IF d < 0 THEN -1 ELSE 1
    IN  <<(s * n) \div g, (s * d) \div g>>

RInt(n) == <<n, 1>>
RAdd(a, b) == Rat(a[1] * b[2] + b[1] * a[2], a[2] * b[2])
RSub(a, b) == Rat(a[1] * b[2] - b[1] * a[2], a[2] * b[2])
RMul(a, b) == Rat(a[1] * b[1], a[2] * b[2])
RDiv(a, b) == Rat(a[1] * b[2], a[2] * b[1])
RLeq(a, b) == a[1] * b[2] <= b[1] * a[2]
RSign(a) == IF a[1] > 0 THEN 1 ELSE IF a[1] < 0 THEN -1 ELSE 0

\* SUM(val[k]) over the keys k of S (val a function to rationals)
RECURSIVE RSum(_, _)
RSum(S, val) ==
    IF S = {} THEN RInt(0)
    ELSE LET k == CHOOSE k \in S : TRUE
         IN  RAdd(val[k], RSum(S \ {k}, val))

\* ------------------------------------------------------------ strings
Letters == {"f", "g", "h", "c", "a", "l", "A", "L"}
Digits == {"1"}
Whitespace == {" "}

\* str.strip()
RECURSIVE LStrip(_)
LStrip(s) == IF s # <<>> /\ Head(s) \in Whitespace THEN LStrip(Tail(s)) ELSE s
RECURSIVE RStrip(_)
RStrip(s) ==
    IF s # <<>> /\ s[Len(s)] \in Whitespace THEN RStrip(SubSeq(s, 1, Len(s) - 1)) ELSE s
Strip(s) == RStrip(LStrip(s))

\* str.upper()
UpperChar(ch) == IF ch = "a" THEN "A" ELSE IF ch = "l" THEN "L" ELSE ch
Upper(s) == [i \in 1..Len(s) |-> UpperChar(s[i])]

\* str.split(","): the pieces between the commas, empty pieces included
RECURSIVE SplitFrom(_, _)
SplitFrom(s, cur) ==
    IF s = <<>> THEN <<cur>>
    ELSE IF Head(s) = "," THEN <<cur>> \o SplitFrom(Tail(s), <<>>)
    ELSE SplitFrom(Tail(s), Append(cur, Head(s)))
Split(s) == SplitFrom(s, <<>>)

\* _IDENT_RE = ^[A-Za-z_][A-Za-z0-9_]*$ applied to a stripped string
IdentMatch(s) ==
    /\ s # <<>>
    /\ s[1] \in Letters \cup {"_"}
    /\ \A i \in 2..Len(s) : s[i] \in Letters \cup Digits \cup {"_"}

\* validate_factor_name: <<"ok", name>> or <<"err", kind>> for the ValueError
validate_factor_name(factor, cols) ==
    LET f == Strip(factor)
    IN  IF f = <<>> THEN <<"err", "factor is empty">>
        ELSE IF ~IdentMatch(f) THEN <<"err", "invalid factor name">>
        ELSE IF \A i \in 1..Len(cols) : cols[i] # f THEN <<"err", "factor column not found">>
        ELSE <<"ok", f>>

\* ------------------------------------------------------------ the feeds
\* score : [set of <<trade_date, ts_code>> -> [f, g : rational or NULL, c : string]]
\* kline : [set of <<trade_date, code>> -> [close, tradestatus, is_st]]
\* basic : [set of codes -> [sec_type, status]]

\* C19 mutant: a missing value stays missing
NullStays(v, dflt) == v

\* ISNULL(v, dflt): dflt for a missing v
ISNULL(v, dflt) == IF v = NULL THEN dflt ELSE v

Between(d, s, e) == s <= d /\ d <= e

\* the columns of dbo.dws_stock_score_daily, by column_id
list_score_columns == << <<"c">>, <<"f">>, <<"g">> >>

NumericCols == {"f", "g"}

\* a factor name as the record field it selects
ColOf(factor) == factor[1]

\* <<MIN(trade_date), MAX(trade_date)>> of the score feed; NULL (both None) on an
\* empty table
get_min_max_score_date(score) ==
    IF DOMAIN score = {} THEN NULL
    ELSE LET ds == {r[1] : r \in DOMAIN score}
         IN  <<CHOOSE d \in ds : \A e \in ds : d <= e,
               CHOOSE d \in ds : \A e \in ds : e <= d>>

\* CTE score: rows in range with a non-null factor, joined to the reference table
ScoreCTE(score, basic, factor, s, e) ==
    {r \in DOMAIN score :
        /\ Between(r[1], s, e)
        /\ score[r][ColOf(factor)] # NULL
        /\ r[2] \in DOMAIN basic
        /\ ISNULL(basic[r[2]].sec_type, RInt(1)) = RInt(1)
        /\ ISNULL(basic[r[2]].status, RInt(1)) = RInt(1)}

\* CAST(s.[factor] AS FLOAT) raises a conversion error on a VARCHAR column
CastFails(score, factor, s, e) ==
    /\ ColOf(factor) \notin NumericCols
    /\ \E r \in DOMAIN score : Between(r[1], s, e) /\ score[r][ColOf(factor)] # NULL

FactorVal(score, factor, r) == score[r][ColOf(factor)]

\* CTE ret: the bars the WHERE clause keeps
RetBars(kline, s, e) ==
    {r \in DOMAIN kline :
        /\ Between(r[1], s, e + LookaheadDays)
        /\ ISNULL(kline[r].tradestatus, RInt(1)) = RInt(1)
        /\ ISNULL(kline[r].is_st, RInt(0)) = RInt(0)}

\* LEAD(close, h) OVER(PARTITION BY code ORDER BY trade_date) within RetBars
LeadClose(kline, s, e, r, h) ==
    LET bars == RetBars(kline, s, e)
        later == {q \in bars : q[2] = r[2] /\ q[1] >= r[1]}
        hit == {q \in later : Cardinality({x \in later : x[1] < q[1]}) = h}
    IN  IF hit = {} THEN NULL ELSE kline[CHOOSE q \in hit : TRUE].close

\* (LEAD(close, h) - close) / NULLIF(close, 0)
RetFwd(kline, s, e, r, h) ==
    LET c0 == kline[r].close
        c1 == LeadClose(kline, s, e, r, h)
    IN  IF c1 = NULL \/ c0 = NULL \/ c0 = RInt(0) THEN NULL ELSE RDiv(RSub(c1, c0), c0)

\* CTE base: score JOIN ret on (code, trade_date) WHERE ret_fwd IS NOT NULL
BaseCTE(score, kline, basic, factor, h, s, e) ==
    {r \in ScoreCTE(score, basic, factor, s, e) :
        /\ r \in RetBars(kline, s, e)
        /\ RetFwd(kline, s, e, r, h) # NULL}

DatesOf(rows) == {r[1] : r \in rows}
OnDate(rows, d) == {r \in rows : r[1] = d}

\* ------------------------------------------------------------ IC
\* C15 mutant: RANK(), 1 + the number of rows with a smaller value
SkipRank(S, val, r) == RInt(1 + Cardinality({q \in S : ~RLeq(val[r], val[q])}))

\* DENSE_RANK() OVER(ORDER BY val): 1 + the number of distinct smaller values
DenseRank(S, val, r) ==
    RInt(1 + Cardinality({val[q] : q \in {q \in S : ~RLeq(val[r], val[q])}}))

\* C18 mutant: the numerator without the product of the sums
CorrUncentred(S, xs, ys) ==
    LET n == RInt(Cardinality(S))
        sumx == RSum(S, xs)
        sumy == RSum(S, ys)
        sumx2 == RSum(S, [q \in S |-> RMul(xs[q], xs[q])])
        sumy2 == RSum(S, [q \in S |-> RMul(ys[q], ys[q])])
        sumxy == RSum(S, [q \in S |-> RMul(xs[q], ys[q])])
        dx == RSub(RMul(n, sumx2), RMul(sumx, sumx))
        dy == RSub(RMul(n, sumy2), RMul(sumy, sumy))
        num == RMul(n, sumxy)
    IN  IF dx = RInt(0) \/ dy = RInt(0) THEN NULL
        ELSE <<RSign(num), RDiv(RMul(num, num), RMul(dx, dy))>>

\* the CASE expression of ic / rank_ic over the rows S of one day: NULL, or the
\* correlation r as <<sign of r, r * r>>
Corr(S, xs, ys) ==
    LET n == RInt(Cardinality(S))
        sumx == RSum(S, xs)
        sumy == RSum(S, ys)
        sumx2 == RSum(S, [q \in S |-> RMul(xs[q], xs[q])])
        sumy2 == RSum(S, [q \in S |-> RMul(ys[q], ys[q])])
        sumxy == RSum(S, [q \in S |-> RMul(xs[q], ys[q])])
        dx == RSub(RMul(n, sumx2), RMul(sumx, sumx))
        dy == RSub(RMul(n, sumy2), RMul(sumy, sumy))
        num == RSub(RMul(n, sumxy), RMul(sumx, sumy))
    IN  IF dx = RInt(0) \/ dy = RInt(0) THEN NULL
        ELSE <<RSign(num), RDiv(RMul(num, num), RMul(dx, dy))>>

\* AVG(val)
Avg(S, val) == RDiv(RSum(S, val), RInt(Cardinality(S)))

\* STDEV(val) as its square (the sample variance); NULL for a single row
Stdev2(S, val) ==
    LET n == Cardinality(S)
        sy == RSum(S, val)
        sy2 == RSum(S, [q \in S |-> RMul(val[q], val[q])])
    IN  IF n < 2 THEN NULL
        ELSE RDiv(RSub(RMul(RInt(n), sy2), RMul(sy, sy)), RInt(n * (n - 1)))

\* C10 mutant: sql_ic without the filter a.n >= min_n
ICRowsUnfiltered(score, kline, basic, factor, h, s, e, min_n) ==
    LET base == BaseCTE(score, kline, basic, factor, h, s, e)
        ys == [q \in base |-> RetFwd(kline, s, e, q, h)]
    IN  {[factor_name |-> factor, horizon |-> h, trade_date |-> d, ic |-> NULL,
          rank_ic |-> NULL, n |-> Cardinality(OnDate(base, d)),
          mean_ret |-> Avg(OnDate(base, d), ys), std_ret |-> NULL] : d \in DatesOf(base)}

\* C22 mutant: rank_ic from the ranks of the factor and the raw forward returns
ICRowsRankVsRaw(score, kline, basic, factor, h, s, e, min_n) ==
    LET base == BaseCTE(score, kline, basic, factor, h, s, e)
        xs == [q \in base |-> FactorVal(score, factor, q)]
        ys == [q \in base |-> RetFwd(kline, s, e, q, h)]
        row(d) ==
            LET S == OnDate(base, d)
                rx == [q \in S |-> DenseRank(S, xs, q)]
            IN  [factor_name |-> factor, horizon |-> h, trade_date |-> d,
                 ic |-> Corr(S, xs, ys), rank_ic |-> Corr(S, rx, ys),
                 n |-> Cardinality(S), mean_ret |-> Avg(S, ys),
                 std_ret |-> Stdev2(S, ys)]
    IN  {row(d) : d \in {d \in DatesOf(base) : Cardinality(OnDate(base, d)) >= min_n}}

\* the rows sql_ic inserts
ICRows(score, kline, basic, factor, h, s, e, min_n) ==
    LET base == BaseCTE(score, kline, basic, factor, h, s, e)
        xs == [q \in base |-> FactorVal(score, factor, q)]
        ys == [q \in base |-> RetFwd(kline, s, e, q, h)]
        row(d) ==
            LET S == OnDate(base, d)
                rx == [q \in S |-> DenseRank(S, xs, q)]
                ry == [q \in S |-> DenseRank(S, ys, q)]
            IN  [factor_name |-> factor, horizon |-> h, trade_date |-> d,
                 ic |-> Corr(S, xs, ys), rank_ic |-> Corr(S, rx, ry),
                 n |-> Cardinality(S), mean_ret |-> Avg(S, ys),
                 std_ret |-> Stdev2(S, ys)]
    IN  {row(d) : d \in {d \in DatesOf(base) : Cardinality(OnDate(base, d)) >= min_n}}

\* ------------------------------------------------------------ ordering with ties
\* C20 mutant: ORDER BY factor_val ascending
RowNumberAsc(S, xs, tb, r) ==
    1 + Cardinality({q \in S :
            \/ ~RLeq(xs[r], xs[q])
            \/ xs[q] = xs[r] /\ tb[q[2]] < tb[r[2]]})

\* ROW_NUMBER() / NTILE() OVER(ORDER BY factor_val DESC): the position of r among
\* the rows S of its day; rows of equal factor_val come in the order tb, which
\* the engine is free to choose
RowNumber(S, xs, tb, r) ==
    1 + Cardinality({q \in S :
            \/ ~RLeq(xs[q], xs[r])
            \/ xs[q] = xs[r] /\ tb[q[2]] < tb[r[2]]})

\* C16 mutant: groups of the rounded-up size, the last ones short or empty
NtileBlocks(L, n, p) == ((p - 1) \div ((n + L - 1) \div L)) + 1

\* NTILE(L) for the row at position p of n rows
Ntile(L, n, p) ==
    LET q == n \div L
        m == n % L
    IN  IF p <= m * (q + 1) THEN ((p - 1) \div (q + 1)) + 1
        ELSE m + ((p - m * (q + 1) - 1) \div q) + 1

\* NTILE(@layers) OVER(PARTITION BY trade_date ORDER BY factor_val DESC): the layer
\* of row q among the rows S of its day
LayerOf(S, xs, layers, tb, q) == Ntile(layers, Cardinality(S), RowNumber(S, xs, tb, q))

\* C28 mutant: sql_layer with the days of a single row left out
LayerRowsOfPairs(score, kline, basic, factor, h, layers, s, e, tb) ==
    LET base == BaseCTE(score, kline, basic, factor, h, s, e)
        xs == [q \in base |-> FactorVal(score, factor, q)]
        ys == [q \in base |-> RetFwd(kline, s, e, q, h)]
        lay(q) == LayerOf(OnDate(base, q[1]), xs, layers, tb, q)
        grp(d, l) == {q \in OnDate(base, d) : lay(q) = l}
    IN  {[factor_name |-> factor, horizon |-> h, trade_date |-> k[1], layer |-> k[2],
          n |-> Cardinality(grp(k[1], k[2])), avg_ret |-> Avg(grp(k[1], k[2]), ys)] :
            k \in {<<q[1], lay(q)>> : q \in {x \in base : Cardinality(OnDate(base, x[1])) >= 2}}}

\* the rows sql_layer inserts
LayerRows(score, kline, basic, factor, h, layers, s, e, tb) ==
    LET base == BaseCTE(score, kline, basic, factor, h, s, e)
        xs == [q \in base |-> FactorVal(score, factor, q)]
        ys == [q \in base |-> RetFwd(kline, s, e, q, h)]
        lay(q) == LayerOf(OnDate(base, q[1]), xs, layers, tb, q)
        grp(d, l) == {q \in OnDate(base, d) : lay(q) = l}
    IN  {[factor_name |-> factor, horizon |-> h, trade_date |-> k[1], layer |-> k[2],
          n |-> Cardinality(grp(k[1], k[2])), avg_ret |-> Avg(grp(k[1], k[2]), ys)] :
            k \in {<<q[1], lay(q)>> : q \in base}}

\* ------------------------------------------------------------ portfolio
\* f"TOP{int(topn)}_{factor}_H{int(nav_horizon)}_D" (injective in its three parts)
PortfolioCode(topn, factor, nav_horizon) == <<"TOP", topn, factor, "H", nav_horizon, "D">>

\* the rows sql_hold inserts
HoldRows(score, basic, factor, nav_horizon, topn, s, e, tb) ==
    LET sc == ScoreCTE(score, basic, factor, s, e)
        xs == [q \in sc |-> FactorVal(score, factor, q)]
        rn(q) == RowNumber(OnDate(sc, q[1]), xs, tb, q)
        picked == {q \in sc : rn(q) <= topn}
        cnt(d) == Cardinality(OnDate(picked, d))
    IN  {[portfolio_code |-> PortfolioCode(topn, factor, nav_horizon),
          trade_date |-> q[1], ts_code |-> q[2],
          weight |-> Rat(1, cnt(q[1])), rank_in_day |-> rn(q)] : q \in picked}

\* sql_ret and the loop that fills ret_map / cnt_map: per signal day the average
\* forward return of the top rows and their number
RetMap(score, kline, basic, factor, nav_horizon, topn, s, e, tb) ==
    LET base == BaseCTE(score, kline, basic, factor, nav_horizon, s, e)
        xs == [q \in base |-> FactorVal(score, factor, q)]
        ys == [q \in base |-> RetFwd(kline, s, e, q, nav_horizon)]
        top(d) == {q \in OnDate(base, d) : RowNumber(OnDate(base, d), xs, tb, q) <= topn}
    IN  [d \in {d \in DatesOf(base) : top(d) # {}} |->
            [daily_ret |-> Avg(top(d), ys), hold_cnt |-> RInt(Cardinality(top(d)))]]

\* cal_dates: the distinct bar dates of [start, end + 400], cut to [start, end]
CalDates(kline, s, e) ==
    {d \in DatesOf(DOMAIN kline) : Between(d, s, e + LookaheadDays) /\ Between(d, s, e)}

\* C11 mutant: the return of a signal day is applied on that day itself
RECURSIVE NavLoopSameDay(_, _, _, _, _)
NavLoopSameDay(pcode, todo, prev, nav, rmap) ==
    IF todo = {} THEN {}
    ELSE LET d == CHOOSE x \in todo : \A y \in todo : x <= y
             has == prev # 0 /\ d \in DOMAIN rmap
             nav2 == IF has THEN RMul(nav, RAdd(RInt(1), rmap[d].daily_ret)) ELSE nav
         IN  {[portfolio_code |-> pcode, trade_date |-> d, nav |-> nav2,
               daily_ret |-> IF has THEN rmap[d].daily_ret ELSE NULL,
               hold_cnt |-> IF has THEN rmap[d].hold_cnt ELSE NULL]}
             \cup NavLoopSameDay(pcode, todo \ {d}, d, nav2, rmap)

\* out_rows: the NAV loop over the sorted calendar
RECURSIVE NavLoop(_, _, _, _, _)
NavLoop(pcode, todo, prev, nav, rmap) ==
    IF todo = {} THEN {}
    ELSE LET d == CHOOSE x \in todo : \A y \in todo : x <= y
             has == prev \in DOMAIN rmap
             nav2 == IF has THEN RMul(nav, RAdd(RInt(1), rmap[prev].daily_ret)) ELSE nav
         IN  {[portfolio_code |-> pcode, trade_date |-> d, nav |-> nav2,
               daily_ret |-> IF has THEN rmap[prev].daily_ret ELSE NULL,
               hold_cnt |-> IF has THEN rmap[prev].hold_cnt ELSE NULL]}
             \cup NavLoop(pcode, todo \ {d}, d, nav2, rmap)

\* prev = 0 (no day number) stands for "i == 0", the first calendar day
NavRows(kline, pcode, s, e, rmap) == NavLoop(pcode, CalDates(kline, s, e), 0, RInt(1), rmap)


\* ------------------------------------------------------------ result tables
ResultTables == {"ic", "layer", "hold", "nav"}

\* the primary key of a row of a result table
PKey(t, r) ==
    IF t = "ic" THEN <<r.factor_name, r.horizon, r.trade_date>>
    ELSE IF t = "layer" THEN <<r.factor_name, r.horizon, r.trade_date, r.layer>>
    ELSE IF t = "hold" THEN <<r.portfolio_code, r.trade_date, r.ts_code>>
    ELSE <<r.portfolio_code, r.trade_date>>

\* INSERT violates the primary key: a key already in the table, or twice in the rows
PKViolation(t, table, rows) ==
    \/ \E r \in rows : \E q \in table : PKey(t, r) = PKey(t, q)
    \/ \E r, q \in rows : r # q /\ PKey(t, r) = PKey(t, q)

\* C23 mutant: DELETE ... WHERE factor_name=? AND horizon=?
DeleteFactorRowsAnyDate(table, factor, h, s, e) ==
    {r \in table : ~(r.factor_name = factor /\ r.horizon = h)}

\* DELETE ... WHERE factor_name=? AND horizon=? AND trade_date BETWEEN ? AND ?
DeleteFactorRows(table, factor, h, s, e) ==
    {r \in table : ~(r.factor_name = factor /\ r.horizon = h /\ Between(r.trade_date, s, e))}

\* C26 mutant: DELETE ... WHERE portfolio_code=? AND trade_date BETWEEN ? AND ?
\* with start and end swapped, which matches no row of a range of several days
DeletePortfolioRowsSwapped(table, pcode, s, e) ==
    {r \in table : ~(r.portfolio_code = pcode /\ Between(r.trade_date, e, s))}

\* DELETE ... WHERE portfolio_code=? AND trade_date BETWEEN ? AND ?
DeletePortfolioRows(table, pcode, s, e) ==
    {r \in table : ~(r.portfolio_code = pcode /\ Between(r.trade_date, s, e))}

\* the four result tables of a database state
Tables(d) == [t \in ResultTables |-> d[t]]

EmptyDb == [schema |-> FALSE, ic |-> {}, layer |-> {}, hold |-> {}, nav |-> {}, log |-> <<>>]


\* ------------------------------------------------------------ inputs
\* close prices 1, 2, 4 keep every return a dyadic rational
ClosePx(r) ==
    LET k == (r[1] * r[2]) % 3
    IN  IF k = 0 THEN 1 ELSE IF k = 1 THEN 2 ELSE 4

NoBar == <<0, 0>>

\* a database content: score rows on the dates sd with factor f = fv[code] and
\* g = NumCodes + 1 - code, a bar per (date, code), the bar `halted` suspended
MkFeed(sd, fv, halted) ==
    [score |-> [r \in sd \X Codes |->
                    [f |-> RInt(fv[r[2]]), g |-> RInt(NumCodes + 1 - r[2]), c |-> <<"s">>]],
     kline |-> [r \in Dates \X Codes |->
                    [close |-> RInt(ClosePx(r)),
                     tradestatus |-> IF r = halted THEN RInt(0)
                                     ELSE IF r[2] = 1 THEN NULL ELSE RInt(1),
                     is_st |-> IF r[2] = 1 THEN RInt(0) ELSE NULL]],
     basic |-> [c \in Codes |-> [sec_type |-> RInt(1), status |-> NULL]]]

\* f without ties (the higher code the higher f), and f equal for all codes
PlainFv == [c \in Codes |-> c]
TiedFv == [c \in Codes |-> 1]

\* the feed fd without day d: a day on which the market is closed
WithoutDay(fd, d) ==
    [fd EXCEPT !.score = [r \in {q \in DOMAIN fd.score : q[1] # d} |-> fd.score[r]],
               !.kline = [r \in {q \in DOMAIN fd.kline : q[1] # d} |-> fd.kline[r]]]

Feeds ==
    {MkFeed(Dates, PlainFv, NoBar), MkFeed(Dates, TiedFv, NoBar),
     MkFeed({}, PlainFv, NoBar), MkFeed({MaxDate}, PlainFv, NoBar),
     MkFeed(Dates, PlainFv, <<2, 1>>), MkFeed({1, MaxDate}, PlainFv, NoBar),
     WithoutDay(MkFeed(Dates, PlainFv, NoBar), 2)}

\* the command lines: the defaults of the model, then one option varied at a time
BaseArgs ==
    [factor |-> <<"f">>, start |-> <<>>, end |-> <<>>, ic_horizon |-> 1, layers |-> 2,
     min_n |-> 1, nav_horizon |-> 1, topn |-> 1]

FactorArgs ==
    {<<"g">>, <<"f", ",", " ", "g">>, <<"f", ",", "f">>, <<"f", ",", ";">>,
     <<"f", ",", "h">>, <<"1", "f">>, <<"g", ",", "c">>, <<"a", "l", "l">>, <<",">>}

RangeArgs ==
    {<<<<1>>, <<2>>>>, <<<<2>>, <<MaxDate>>>>, <<<<2>>, <<1>>>>, <<<<0>>, <<>>>>}

ArgSet ==
    {BaseArgs}
    \cup {[BaseArgs EXCEPT !.factor = x] : x \in FactorArgs}
    \cup {[BaseArgs EXCEPT !.start = x[1], !.end = x[2]] : x \in RangeArgs}
    \cup {[BaseArgs EXCEPT !.min_n = x] : x \in {0, 2}}
    \cup {[BaseArgs EXCEPT !.topn = 2], [BaseArgs EXCEPT !.layers = 0],
          [BaseArgs EXCEPT !.ic_horizon = 2, !.nav_horizon = 2]}

\* the orders in which the engine may return rows of equal factor_val
TieBreaks == {tb \in [Codes -> 1..NumCodes] : \A a, b \in Codes : tb[a] = tb[b] => a = b}

\* dt.datetime.strptime(s, "%Y-%m-%d").date(): the day of a well-formed literal;
\* strptime raises ValueError on any other
DateOk(str) == Len(str) = 1 /\ str[1] >= 1
parse_date(str) == str[1]

\* "ALL": the candidate columns, of which the model's score table has two
candidates == << <<"f">>, <<"g">>, <<"h">> >>

RECURSIVE SelectSeq2(_, _)
SelectSeq2(sq, S) ==
    IF sq = <<>> THEN <<>>
    ELSE IF Head(sq) \in S THEN <<Head(sq)>> \o SelectSeq2(Tail(sq), S)
    ELSE SelectSeq2(Tail(sq), S)

Range(sq) == {sq[i] : i \in 1..Len(sq)}

\* lines 613-629: the factor list of the command line
FactorList(factor, cols) ==
    IF Upper(Strip(factor)) = <<"A", "L", "L">> THEN SelectSeq2(candidates, Range(cols))
    ELSE LET parts == Split(factor)
             kept == {i \in 1..Len(parts) : Strip(parts[i]) # <<>>}
             nth(k) == CHOOSE i \in kept : Cardinality({j \in kept : j < i}) = k - 1
         IN  [k \in 1..Cardinality(kept) |-> Strip(parts[nth(k)])]

\* line 631: the validated list, or the first ValueError
ValidateAll(fs, cols) ==
    LET res == [i \in 1..Len(fs) |-> validate_factor_name(fs[i], cols)]
        bad == {i \in 1..Len(fs) : res[i][1] = "err"}
    IN  IF bad = {} THEN <<"ok", [i \in 1..Len(fs) |-> res[i][2]]>>
        ELSE <<"err", res[CHOOSE i \in bad : \A j \in bad : i <= j][2]>>


\* ------------------------------------------------------------ one cross-section
\* the flags of a plain, active, trading, non-ST code, all stated explicitly
GoodFlags ==
    [sec_type |-> RInt(1), status |-> RInt(1), tradestatus |-> RInt(1), is_st |-> RInt(0)]

\* the flags as the reference and bar tables may carry them: missing, good, bad
FlagProfiles ==
    [sec_type : {NULL, RInt(1), RInt(2)}, status : {NULL, RInt(1), RInt(0)},
     tradestatus : {NULL, RInt(1), RInt(0)}, is_st : {NULL, RInt(0), RInt(1)}]

\* the v-th close price 1, 2, 4, 7, ...: unevenly spaced, so that the ranks of the
\* returns are not a linear function of the returns
CrossClose(v) == (v * v - v + 2) \div 2

\* a database content with one scored day: codes 1..Len(fv) with factor f = fv[c],
\* close 1 on day 1 and CrossClose(cl[c]) on day 2, code 1 carrying the flags fl
CrossFeed(fv, cl, fl) ==
    LET cs == 1..Len(fv)
    IN  [score |-> [r \in {1} \X cs |-> [f |-> RInt(fv[r[2]]), g |-> NULL, c |-> <<"s">>]],
         kline |-> [r \in {1, 2} \X cs |->
                        [close |-> IF r[1] = 1 THEN RInt(1) ELSE RInt(CrossClose(cl[r[2]])),
                         tradestatus |-> IF r = <<1, 1>> THEN fl.tradestatus ELSE RInt(1),
                         is_st |-> IF r = <<1, 1>> THEN fl.is_st ELSE RInt(0)]],
         basic |-> [c \in cs |-> [sec_type |-> IF c = 1 THEN fl.sec_type ELSE RInt(1),
                                  status |-> IF c = 1 THEN fl.status ELSE RInt(1)]]]

\* the factor values in the order of the codes (any other cross-section is one of
\* these with the codes renamed), every assignment of closes
CrossFeeds ==
    UNION {{CrossFeed(fv, cl, GoodFlags) :
                fv \in {v \in [1..n -> 1..MaxVal] : \A i \in 1..(n - 1) : v[i] <= v[i + 1]},
                cl \in [1..n -> 1..MaxVal]} : n \in 1..MaxCross}
    \cup {CrossFeed(<<1, 2>>, <<2, 1>>, fl) : fl \in FlagProfiles}

\* the orders in which the engine may return the rows of a cross-section
CrossTieBreaks(cs) == {tb \in [cs -> 1..Cardinality(cs)] : \A a, b \in cs : tb[a] = tb[b] => a = b}

NoCross ==
    [step |-> "base", base |-> {}, rx |-> <<>>, ry |-> <<>>, ic |-> {}, layers |-> 0,
     lay |-> <<>>, layer |-> {}]

\* the parts of the state that belong to the other modules and to the detailed
\* views of single statements, before any of them has run
NoFlt == [step |-> "none"]
NoSess == [step |-> "none"]
NoQuota == [step |-> "none"]
NoJob == [step |-> "none"]

\* ------------------------------------------------------------ state
VARIABLES
    score, kline, basic,  \* the feeds
    connForm,             \* what db_conn() returns: "ctxmgr" (common/db.py) or "direct"
    db,                   \* the committed database: result tables and run log
    tx,                   \* the database as the run's connection sees it
    pc,                   \* the statement main() executes next
    args,                 \* the parsed command line
    conn,                 \* "none", "ctxmgr", "open", "broken" or "closed"
    range,                \* <<start, end>> once resolved
    factors, fi,          \* the validated factor list and the loop index
    ret_map, out_rows,    \* locals of calc_portfolio_nav
    ok, msg,              \* locals of main
    exit,                 \* how the last run ended: "return" or "SystemExit"
    runs,                 \* the number of runs that ended
    faults,               \* the database errors the environment may still raise
    again,                \* the command line the caller repeats next, or NULL
    pre,                  \* history: the committed database when the run started
    phases,               \* history: the phases the run entered, in order
    failed,               \* history: <<phase, factor index>> of the raising step
    dml,                  \* history: a DELETE / INSERT on a result table was executed
    same,                 \* history: the run repeats the previous, successful, one
    cross,                \* the intermediate results of sql_ic / sql_layer on one day
    flt,                  \* the IC expression of one day evaluated in FLOAT arithmetic
    sess,                 \* two concurrent runs of main, each on its own connection
    quota,                \* the BaoStock call counter and its concurrent callers
    job                   \* the call stack of app.run_job and the job status / log

vars == <<score, kline, basic, connForm, db, tx, pc, args, conn, range, factors, fi,
          ret_map, out_rows, ok, msg, exit, runs, faults, again, pre, phases, failed,
          dml, same, cross, flt, sess, quota, job>>

feedVars == <<score, kline, basic, connForm, cross, flt, sess, quota, job>>
localVars == <<args, range, factors, fi, ret_map, out_rows>>
envVars == <<exit, runs, again, pre, same>>

Init ==
    /\ \E fd \in Feeds : score = fd.score /\ kline = fd.kline /\ basic = fd.basic
    /\ connForm \in {"ctxmgr", "direct"}
    /\ db = EmptyDb
    /\ tx = EmptyDb
    /\ pc = "idle"
    /\ args = BaseArgs
    /\ conn = "none"
    /\ range = NULL
    /\ factors = <<>>
    /\ fi = 0
    /\ ret_map = <<>>
    /\ out_rows = {}
    /\ ok = TRUE
    /\ msg = ""
    /\ exit = "none"
    /\ runs = 0
    /\ faults = MaxFaults
    /\ again = NULL
    /\ pre = EmptyDb
    /\ phases = <<>>
    /\ failed = NULL
    /\ dml = FALSE
    /\ same = FALSE
    /\ cross = NoCross
    /\ flt = NoFlt
    /\ sess = NoSess
    /\ quota = NoQuota
    /\ job = NoJob

\* ------------------------------------------------------------ main()
\* the phase a statement of the try block belongs to
PhaseOf(p) ==
    IF p \in {"ensure_schema", "list_cols"} THEN "SETUP"
    ELSE IF p \in {"min_max", "resolve"} THEN "RESOLVE_RANGE"
    ELSE IF p = "validate" THEN "VALIDATE"
    ELSE IF p \in {"ic_del_ic", "ic_del_layer", "ic_ins_ic", "ic_ins_layer"}
         THEN "IC_AND_LAYER"
    ELSE IF p = "commit" THEN "COMMIT"
    ELSE "PORTFOLIO"

\* the first statement of each phase
PhaseEntry == {"ensure_schema", "min_max", "validate", "ic_del_ic", "nav_del_nav", "commit"}

Enter == IF pc \in PhaseEntry THEN Append(phases, <<PhaseOf(pc), fi>>) ELSE phases

\* the statement at pc completes
NoRaise == phases' = Enter /\ UNCHANGED <<ok, msg, failed>>

\* the statement at pc raises an Exception: the except clause of lines 639-641
\* sets ok and msg, and the rollback follows
Raise(m) ==
    /\ pc' = "rollback"
    /\ ok' = FALSE
    /\ msg' = m
    /\ failed' = <<PhaseOf(pc), fi>>
    /\ phases' = Append(Enter, <<"ABORT", fi>>)

\* _get_conn(): whatever db_conn() returns
_get_conn == IF connForm = "ctxmgr" THEN "ctxmgr" ELSE "open"

\* lines 571-597: parse the command line, ok = True, conn = _get_conn()
Main_Start ==
    /\ pc = "idle"
    /\ runs < MaxRuns
    /\ \E a \in ArgSet : (again # NULL => a = again) /\ args' = a
    /\ same' = (again # NULL /\ exit = "return")
    /\ again' = NULL
    /\ conn' = _get_conn
    /\ tx' = db
    /\ pre' = db
    /\ ok' = TRUE
    /\ msg' = ""
    /\ failed' = NULL
    /\ phases' = <<>>
    /\ dml' = FALSE
    /\ range' = NULL
    /\ factors' = <<>>
    /\ fi' = 0
    /\ ret_map' = <<>>
    /\ out_rows' = {}
    /\ pc' = "ensure_schema"
    /\ UNCHANGED <<feedVars, db, exit, runs, faults>>

\* line 599: CREATE TABLE for each missing table, inside the open transaction;
\* a context manager has no cursor()
Main_EnsureSchema ==
    /\ pc = "ensure_schema"
    /\ IF conn = "open"
       THEN tx' = [tx EXCEPT !.schema = TRUE] /\ pc' = "list_cols" /\ NoRaise
       ELSE Raise("AttributeError") /\ UNCHANGED tx
    /\ UNCHANGED <<feedVars, db, localVars, conn, envVars, faults, dml>>

\* line 600
Main_ListColumns ==
    /\ pc = "list_cols"
    /\ pc' = "min_max"
    /\ NoRaise
    /\ UNCHANGED <<feedVars, db, tx, localVars, conn, envVars, faults, dml>>

\* lines 602-604
Main_MinMax ==
    /\ pc = "min_max"
    /\ IF get_min_max_score_date(score) = NULL
       THEN Raise("dbo.dws_stock_score_daily is empty")
       ELSE pc' = "resolve" /\ NoRaise
    /\ UNCHANGED <<feedVars, db, tx, localVars, conn, envVars, faults, dml>>

\* lines 606-610
Main_ResolveRange ==
    /\ pc = "resolve"
    /\ LET mm == get_min_max_score_date(score)
           sOk == args.start = <<>> \/ DateOk(args.start)
           eOk == args.end = <<>> \/ DateOk(args.end)
           s == IF args.start # <<>> THEN parse_date(args.start) ELSE mm[1]
           e == IF args.end # <<>> THEN parse_date(args.end) ELSE mm[2]
       IN  IF ~sOk \/ ~eOk THEN Raise("time data does not match format") /\ UNCHANGED range
           ELSE IF s > e THEN Raise("start > end") /\ UNCHANGED range
           ELSE range' = <<s, e>> /\ pc' = "validate" /\ NoRaise
    /\ UNCHANGED <<feedVars, db, tx, args, factors, fi, ret_map, out_rows, conn, envVars,
                   faults, dml>>

\* C4 mutant: the names are not validated before the loop
Main_ValidateUnchecked ==
    /\ pc = "validate"
    /\ factors' = FactorList(args.factor, list_score_columns)
    /\ NoRaise
    /\ IF factors' = <<>> THEN pc' = "commit" /\ fi' = 0
       ELSE pc' = "ic_del_ic" /\ fi' = 1
    /\ UNCHANGED <<feedVars, db, tx, args, range, ret_map, out_rows, conn, envVars,
                   faults, dml>>

\* lines 612-631, and the loop head of line 633
Main_Validate ==
    /\ pc = "validate"
    /\ LET v == ValidateAll(FactorList(args.factor, list_score_columns), list_score_columns)
       IN  IF v[1] = "err" THEN Raise(v[2]) /\ UNCHANGED <<factors, fi>>
           ELSE /\ factors' = v[2]
                /\ NoRaise
                /\ IF v[2] = <<>> THEN pc' = "commit" /\ fi' = 0
                   ELSE pc' = "ic_del_ic" /\ fi' = 1
    /\ UNCHANGED <<feedVars, db, tx, args, range, ret_map, out_rows, conn, envVars,
                   faults, dml>>

\* ------------------------------------------------------------ calc_ic_and_layer
\* lines 237-241
Ic_DeleteIc ==
    /\ pc = "ic_del_ic"
    /\ tx' = [tx EXCEPT !.ic = DeleteFactorRows(@, factors[fi], args.ic_horizon,
                                                range[1], range[2])]
    /\ dml' = TRUE
    /\ pc' = "ic_del_layer"
    /\ NoRaise
    /\ UNCHANGED <<feedVars, db, localVars, conn, envVars, faults>>

\* lines 242-246
Ic_DeleteLayer ==
    /\ pc = "ic_del_layer"
    /\ tx' = [tx EXCEPT !.layer = DeleteFactorRows(@, factors[fi], args.ic_horizon,
                                                   range[1], range[2])]
    /\ dml' = TRUE
    /\ pc' = "ic_ins_ic"
    /\ NoRaise
    /\ UNCHANGED <<feedVars, db, localVars, conn, envVars, faults>>

\* lines 249-337
Ic_InsertIc ==
    /\ pc = "ic_ins_ic"
    /\ IF CastFails(score, factors[fi], range[1], range[2])
       THEN Raise("conversion error") /\ UNCHANGED <<tx, dml>>
       ELSE LET rows == ICRows(score, kline, basic, factors[fi], args.ic_horizon,
                               range[1], range[2], args.min_n)
            IN  IF PKViolation("ic", tx.ic, rows)
                THEN Raise("primary key") /\ UNCHANGED <<tx, dml>>
                ELSE /\ tx' = [tx EXCEPT !.ic = @ \cup rows]
                     /\ dml' = TRUE
                     /\ pc' = "ic_ins_layer"
                     /\ NoRaise
    /\ UNCHANGED <<feedVars, db, localVars, conn, envVars, faults>>

\* lines 340-390; NTILE(@layers) needs a positive argument and fails on the
\* first row it numbers
Ic_InsertLayer ==
    /\ pc = "ic_ins_layer"
    /\ \E tb \in TieBreaks :
        IF /\ args.layers <= 0
           /\ BaseCTE(score, kline, basic, factors[fi], args.ic_horizon,
                      range[1], range[2]) # {}
        THEN Raise("NTILE requires a positive argument") /\ UNCHANGED <<tx, dml>>
        ELSE LET rows == LayerRows(score, kline, basic, factors[fi], args.ic_horizon,
                                   args.layers, range[1], range[2], tb)
             IN  IF PKViolation("layer", tx.layer, rows)
                 THEN Raise("primary key") /\ UNCHANGED <<tx, dml>>
                 ELSE /\ tx' = [tx EXCEPT !.layer = @ \cup rows]
                      /\ dml' = TRUE
                      /\ pc' = "nav_del_nav"
                      /\ NoRaise
    /\ UNCHANGED <<feedVars, db, localVars, conn, envVars, faults>>

\* ------------------------------------------------------------ calc_portfolio_nav
portfolio_code == PortfolioCode(args.topn, factors[fi], args.nav_horizon)

\* C2 mutant: the loop commits after each factor
NextFactorCommitting ==
    /\ IF fi < Len(factors) THEN pc' = "ic_del_ic" /\ fi' = fi + 1
       ELSE pc' = "commit" /\ fi' = fi
    /\ db' = tx'

\* C7 mutant: the loop ends after the first factor
NextFactorOnce == pc' = "commit" /\ fi' = fi /\ db' = db

\* the loop of line 633 after a factor: the next factor, or line 637; nothing
\* is committed in between
NextFactor ==
    /\ IF fi < Len(factors) THEN pc' = "ic_del_ic" /\ fi' = fi + 1
       ELSE pc' = "commit" /\ fi' = fi
    /\ db' = db

\* lines 401-405
Nav_DeleteNav ==
    /\ pc = "nav_del_nav"
    /\ tx' = [tx EXCEPT !.nav = DeletePortfolioRows(@, portfolio_code, range[1], range[2])]
    /\ dml' = TRUE
    /\ pc' = "nav_del_hold"
    /\ NoRaise
    /\ UNCHANGED <<feedVars, db, localVars, conn, envVars, faults>>

\* lines 406-410
Nav_DeleteHoldings ==
    /\ pc = "nav_del_hold"
    /\ tx' = [tx EXCEPT !.hold = DeletePortfolioRows(@, portfolio_code, range[1], range[2])]
    /\ dml' = TRUE
    /\ pc' = "nav_ins_hold"
    /\ NoRaise
    /\ UNCHANGED <<feedVars, db, localVars, conn, envVars, faults>>

\* lines 413-451
Nav_InsertHoldings ==
    /\ pc = "nav_ins_hold"
    /\ \E tb \in TieBreaks :
        LET rows == HoldRows(score, basic, factors[fi], args.nav_horizon, args.topn,
                             range[1], range[2], tb)
        IN  IF PKViolation("hold", tx.hold, rows)
            THEN Raise("primary key") /\ UNCHANGED <<tx, dml>>
            ELSE /\ tx' = [tx EXCEPT !.hold = @ \cup rows]
                 /\ dml' = TRUE
                 /\ pc' = "nav_query_ret"
                 /\ NoRaise
    /\ UNCHANGED <<feedVars, db, localVars, conn, envVars, faults>>

\* lines 454-510
Nav_QueryReturns ==
    /\ pc = "nav_query_ret"
    /\ \E tb \in TieBreaks :
        ret_map' = RetMap(score, kline, basic, factors[fi], args.nav_horizon, args.topn,
                          range[1], range[2], tb)
    /\ pc' = "nav_build"
    /\ NoRaise
    /\ UNCHANGED <<feedVars, db, tx, args, range, factors, fi, out_rows, conn, envVars,
                   faults, dml>>

\* lines 512-539: the calendar query and the NAV loop; without calendar days the
\* function returns before the insert
Nav_BuildSeries ==
    /\ pc = "nav_build"
    /\ NoRaise
    /\ UNCHANGED <<feedVars, tx, args, range, factors, ret_map, conn, envVars,
                   faults, dml>>
    /\ IF CalDates(kline, range[1], range[2]) = {}
       THEN NextFactor /\ UNCHANGED out_rows
       ELSE /\ out_rows' = NavRows(kline, portfolio_code, range[1], range[2], ret_map)
            /\ pc' = "nav_ins_nav"
            /\ fi' = fi
            /\ db' = db

\* lines 541-550
Nav_InsertNav ==
    /\ pc = "nav_ins_nav"
    /\ IF PKViolation("nav", tx.nav, out_rows)
       THEN Raise("primary key") /\ UNCHANGED <<db, tx, fi, dml>>
       ELSE /\ tx' = [tx EXCEPT !.nav = @ \cup out_rows]
            /\ dml' = TRUE
            /\ NextFactor
            /\ NoRaise
    /\ UNCHANGED <<feedVars, args, range, factors, ret_map, out_rows, conn, envVars,
                   faults>>

\* ------------------------------------------------------------ commit and cleanup
\* line 637
Main_Commit ==
    /\ pc = "commit"
    /\ db' = tx
    /\ pc' = "log_run"
    /\ NoRaise
    /\ UNCHANGED <<feedVars, tx, localVars, conn, envVars, faults, dml>>

\* the statements of the try block that go to the database
DbSteps ==
    {"ensure_schema", "list_cols", "min_max", "ic_del_ic", "ic_del_layer", "ic_ins_ic",
     "ic_ins_layer", "nav_del_nav", "nav_del_hold", "nav_ins_hold", "nav_query_ret",
     "nav_build", "nav_ins_nav", "commit"}

\* cur.execute / cur.executemany / query / conn.commit raises: the statement has
\* no effect and control passes to the except clause
StatementFails ==
    /\ pc \in DbSteps
    /\ conn = "open"
    /\ faults > 0
    /\ faults' = faults - 1
    /\ Raise("database error")
    /\ UNCHANGED <<feedVars, db, tx, localVars, conn, envVars, dml>>

\* lines 642-645: conn.rollback(), its exception swallowed
RollbackDone ==
    /\ pc = "rollback"
    /\ conn = "open"
    /\ tx' = db
    /\ pc' = "log_run"
    /\ UNCHANGED <<feedVars, db, localVars, conn, ok, msg, envVars, faults, phases,
                   failed, dml>>

\* conn.rollback() raises: on a context manager always (AttributeError); on a
\* connection the transaction either stays open or is lost with the connection
RollbackRaises ==
    /\ pc = "rollback"
    /\ IF conn = "open"
       THEN /\ faults > 0
            /\ faults' = faults - 1
            /\ \E lost \in BOOLEAN :
                /\ conn' = IF lost THEN "broken" ELSE "open"
                /\ tx' = IF lost THEN db ELSE tx
       ELSE UNCHANGED <<faults, conn, tx>>
    /\ pc' = "log_run"
    /\ UNCHANGED <<feedVars, db, localVars, ok, msg, envVars, phases, failed, dml>>

\* the row log_run inserts (params_json, duration_sec and msg are not modelled)
LogRow == [module |-> "backtest_mvp", ok |-> IF ok THEN 1 ELSE 0]

\* lines 555-564 called from line 649: the INSERT succeeds
log_run ==
    /\ pc = "log_run"
    /\ conn = "open"
    /\ tx.schema
    /\ tx' = [tx EXCEPT !.log = Append(@, LogRow)]
    /\ pc' = "final_commit"
    /\ UNCHANGED <<feedVars, db, localVars, conn, ok, msg, envVars, faults, phases,
                   failed, dml>>

\* C29 mutant: log_run without its try / except, the exception of the INSERT
\* reaching main
log_run_propagates ==
    /\ pc = "log_run"
    /\ IF conn = "open" /\ tx.schema
       THEN faults > 0 /\ faults' = faults - 1
       ELSE UNCHANGED faults
    /\ pc' = "final_commit"
    /\ ok' = FALSE
    /\ msg' = "database error"
    /\ UNCHANGED <<feedVars, db, tx, localVars, conn, envVars, phases, failed, dml>>

\* lines 565-567: the INSERT raises (no cursor, no connection, no table, or a
\* database error) and log_run swallows it
log_run_raises ==
    /\ pc = "log_run"
    /\ IF conn = "open" /\ tx.schema
       THEN faults > 0 /\ faults' = faults - 1
       ELSE UNCHANGED faults
    /\ pc' = "final_commit"
    /\ UNCHANGED <<feedVars, db, tx, localVars, conn, ok, msg, envVars, phases, failed,
                   dml>>

\* lines 650-653: conn.commit(), its exception swallowed
FinalCommit ==
    /\ pc = "final_commit"
    /\ conn = "open"
    /\ db' = tx
    /\ pc' = "close"
    /\ UNCHANGED <<feedVars, tx, localVars, conn, ok, msg, envVars, faults, phases,
                   failed, dml>>

FinalCommitRaises ==
    /\ pc = "final_commit"
    /\ IF conn = "open" THEN faults > 0 /\ faults' = faults - 1 ELSE UNCHANGED faults
    /\ pc' = "close"
    /\ UNCHANGED <<feedVars, db, tx, localVars, conn, ok, msg, envVars, phases, failed,
                   dml>>

\* lines 654-660: conn.close(), which ends the session and with it any open
\* transaction, then return or raise SystemExit(msg); the locals of main are
\* gone, and the caller may decide to run the same command line again
Main_Close ==
    /\ pc = "close"
    /\ conn' = "none"
    /\ tx' = db
    /\ exit' = IF ok THEN "return" ELSE "SystemExit"
    /\ runs' = runs + 1
    /\ \E rerun \in BOOLEAN : again' = IF rerun THEN args ELSE NULL
    /\ args' = BaseArgs
    /\ range' = NULL
    /\ factors' = <<>>
    /\ fi' = 0
    /\ ret_map' = <<>>
    /\ out_rows' = {}
    /\ ok' = TRUE
    /\ msg' = ""
    /\ pre' = EmptyDb
    /\ phases' = <<>>
    /\ failed' = NULL
    /\ dml' = FALSE
    /\ same' = FALSE
    /\ pc' = "idle"
    /\ UNCHANGED <<feedVars, db, faults>>

Next ==
    \/ Main_Start
    \/ Main_EnsureSchema
    \/ Main_ListColumns
    \/ Main_MinMax
    \/ Main_ResolveRange
    \/ Main_Validate
    \/ Ic_DeleteIc
    \/ Ic_DeleteLayer
    \/ Ic_InsertIc
    \/ Ic_InsertLayer
    \/ Nav_DeleteNav
    \/ Nav_DeleteHoldings
    \/ Nav_InsertHoldings
    \/ Nav_QueryReturns
    \/ Nav_BuildSeries
    \/ Nav_InsertNav
    \/ Main_Commit
    \/ StatementFails
    \/ RollbackDone
    \/ RollbackRaises
    \/ log_run
    \/ log_run_raises
    \/ FinalCommit
    \/ FinalCommitRaises
    \/ Main_Close

Spec == Init /\ [][Next]_vars

\* ------------------------------------------------------------ sql_ic and sql_layer on one day
\* the statements of calc_ic_and_layer applied to one cross-section: factor f,
\* horizon 1, the range [1, 1], min_n 1
CrossFactor == <<"f">>

InitCross ==
    /\ \E fd \in CrossFeeds : score = fd.score /\ kline = fd.kline /\ basic = fd.basic
    /\ connForm = "direct"
    /\ db = EmptyDb
    /\ tx = EmptyDb
    /\ pc = "idle"
    /\ args = BaseArgs
    /\ conn = "none"
    /\ range = <<1, 1>>
    /\ factors = <<CrossFactor>>
    /\ fi = 1
    /\ ret_map = <<>>
    /\ out_rows = {}
    /\ ok = TRUE
    /\ msg = ""
    /\ exit = "none"
    /\ runs = 0
    /\ faults = 0
    /\ again = NULL
    /\ pre = EmptyDb
    /\ phases = <<>>
    /\ failed = NULL
    /\ dml = FALSE
    /\ same = FALSE
    /\ cross = NoCross
    /\ flt = NoFlt
    /\ sess = NoSess
    /\ quota = NoQuota
    /\ job = NoJob

mainVars == <<score, kline, basic, connForm, db, tx, pc, args, conn, range, factors, fi,
              ret_map, out_rows, ok, msg, exit, runs, faults, again, pre, phases,
              failed, dml, same>>

crossFixed == <<mainVars, flt, sess, quota, job>>

\* lines 254-275 and 289-294: the CTEs base and ranked
Cross_Ranked ==
    /\ cross.step = "base"
    /\ LET base == BaseCTE(score, kline, basic, CrossFactor, args.ic_horizon,
                           range[1], range[2])
           xs == [q \in base |-> FactorVal(score, CrossFactor, q)]
           ys == [q \in base |-> RetFwd(kline, range[1], range[2], q, args.ic_horizon)]
       IN  cross' = [cross EXCEPT !.step = "ic", !.base = base,
                                  !.rx = [q \in base |-> DenseRank(base, xs, q)],
                                  !.ry = [q \in base |-> DenseRank(base, ys, q)]]
    /\ UNCHANGED crossFixed

\* lines 276-334: the rows of sql_ic
Cross_InsertIc ==
    /\ cross.step = "ic"
    /\ cross' = [cross EXCEPT !.step = "layer",
                              !.ic = ICRows(score, kline, basic, CrossFactor, args.ic_horizon,
                                            range[1], range[2], args.min_n)]
    /\ UNCHANGED crossFixed

\* lines 340-390: the rows of sql_layer for some --layers and some order of ties
Cross_InsertLayer ==
    /\ cross.step = "layer"
    /\ \E L \in 1..MaxLayers, tb \in CrossTieBreaks(DOMAIN basic) :
        LET xs == [q \in cross.base |-> FactorVal(score, CrossFactor, q)]
        IN  cross' = [cross EXCEPT
                        !.step = "done", !.layers = L,
                        !.lay = [q \in cross.base |-> LayerOf(cross.base, xs, L, tb, q)],
                        !.layer = LayerRows(score, kline, basic, CrossFactor, args.ic_horizon,
                                            L, range[1], range[2], tb)]
    /\ UNCHANGED crossFixed

NextCross == Cross_Ranked \/ Cross_InsertIc \/ Cross_InsertLayer

SpecCross == InitCross /\ [][NextCross]_vars

\* ------------------------------------------------------------ vocabulary of the properties
\* the rows of factor f in the four result tables of the database state d
FactorRows(d, f) ==
    [t \in ResultTables |->
        {r \in d[t] : IF t \in {"ic", "layer"} THEN r.factor_name = f
                      ELSE r.portfolio_code[3] = f}]

\* the statements of the try block, and those of the except / finally clauses
CleanupPcs == {"rollback", "log_run", "final_commit", "close"}
RunEnded == pc = "close"

\* a statement of calc_ic_and_layer or calc_portfolio_nav raised
WriteFailed == failed # NULL /\ failed[1] \in {"IC_AND_LAYER", "PORTFOLIO"}

\* the four tables after factor f has been recomputed on top of the state d0,
\* the engine ordering ties as t1 (layers), t2 (holdings) and t3 (returns)
Recomputed(d0, f, t1, t2, t3) ==
    LET s == range[1]
        e == range[2]
        pcode == PortfolioCode(args.topn, f, args.nav_horizon)
    IN  [ic |-> DeleteFactorRows(d0.ic, f, args.ic_horizon, s, e)
                \cup ICRows(score, kline, basic, f, args.ic_horizon, s, e, args.min_n),
         layer |-> DeleteFactorRows(d0.layer, f, args.ic_horizon, s, e)
                   \cup LayerRows(score, kline, basic, f, args.ic_horizon, args.layers,
                                  s, e, t1),
         hold |-> DeletePortfolioRows(d0.hold, pcode, s, e)
                  \cup HoldRows(score, basic, f, args.nav_horizon, args.topn, s, e, t2),
         nav |-> DeletePortfolioRows(d0.nav, pcode, s, e)
                 \cup NavRows(kline, pcode, s, e,
                              RetMap(score, kline, basic, f, args.nav_horizon, args.topn,
                                     s, e, t3))]

\* no statement of the recomputation of f can fail on the feeds
Computable(f) ==
    /\ ~CastFails(score, f, range[1], range[2])
    /\ \/ args.layers > 0
       \/ BaseCTE(score, kline, basic, f, args.ic_horizon, range[1], range[2]) = {}

\* the committed rows of f are a complete new result set
CompleteNew(f) ==
    /\ range # NULL
    /\ Computable(f)
    /\ \E t1, t2, t3 \in TieBreaks :
        FactorRows(db, f) = FactorRows(Recomputed(pre, f, t1, t2, t3), f)

\* ------------------------------------------------------------ C1
\* C1 (as stated): when a statement of calc_ic_and_layer or calc_portfolio_nav
\* has failed for a factor, then at the end of the run - after the rollback
\* attempt, the run-log insert and the final commit - the committed IC, layer,
\* holdings and NAV rows of that factor are those of before the run.
C1_NoPartialOutputPersisted ==
    (RunEnded /\ WriteFailed) =>
        FactorRows(db, factors[failed[2]]) = FactorRows(pre, factors[failed[2]])

C3_ReaderSeesOldOrNew ==
    pc # "idle" =>
        \A i \in 1..Len(factors) :
            \/ FactorRows(db, factors[i]) = FactorRows(pre, factors[i])
            \/ CompleteNew(factors[i])

\* ------------------------------------------------------------ C4
\* the messages of the ValueErrors of validate_factor_name and of line 610
ValidationErrors ==
    {"factor is empty", "invalid factor name", "factor column not found", "start > end"}

\* the errors of the steps that precede the range and name checks
EarlierErrors == {"AttributeError", "database error", "dbo.dws_stock_score_daily is empty"}

\* a name of the requested list is malformed or not a column of the score feed
BadFactorName ==
    ValidateAll(FactorList(args.factor, list_score_columns), list_score_columns)[1] = "err"

\* the requested start lies after the requested end (a bound that is not given
\* is the first / last score date, if there is one)
StartAfterEnd ==
    LET mm == get_min_max_score_date(score)
        sKnown == IF args.start # <<>> THEN DateOk(args.start) ELSE mm # NULL
        eKnown == IF args.end # <<>> THEN DateOk(args.end) ELSE mm # NULL
        s == IF args.start # <<>> THEN parse_date(args.start) ELSE mm[1]
        e == IF args.end # <<>> THEN parse_date(args.end) ELSE mm[2]
    IN  sKnown /\ eKnown /\ s > e

NoScoreInRange ==
    \/ DOMAIN score = {}
    \/ range # NULL /\ ~\E r \in DOMAIN score : Between(r[1], range[1], range[2])

\* C5 (as stated): a run whose range holds no score row, and that met no database
\* error, ends with an error and has deleted and inserted no result row.
C5_NoDataAborts ==
    (RunEnded /\ NoScoreInRange /\ msg # "database error") => ~ok /\ ~dml

\* ------------------------------------------------------------ C6
\* C6 (as stated): a run that obtained a connection, whatever its outcome, has
\* persisted one more RunLog row when it ends (here: without any error raised
\* by the database server or the driver outside the run's own statements).
C6_RunLogRowPersisted ==
    (RunEnded /\ conn = "open" /\ faults = MaxFaults) => Len(db.log) = Len(pre.log) + 1

\* ------------------------------------------------------------ C7
\* the steps of the run so far, without schema setup and without the final ABORT
IsStep(ph) == ph[1] \notin {"SETUP", "ABORT"}
StepsTaken == SelectSeq(phases, IsStep)

IsPrefix(a, b) == Len(a) <= Len(b) /\ \A k \in 1..Len(a) : a[k] = b[k]

\* factor after factor: IC_AND_LAYER then PORTFOLIO of each, then COMMIT
FactorSteps(n) ==
    [k \in 1..(2 * n) |-> IF k % 2 = 1 THEN <<"IC_AND_LAYER", (k + 1) \div 2>>
                          ELSE <<"PORTFOLIO", k \div 2>>]
    \o << <<"COMMIT", n>> >>

\* the order the specification gives, and the order of lines 599-637
SpecOrder(n) == << <<"VALIDATE", 0>>, <<"RESOLVE_RANGE", 0>> >> \o FactorSteps(n)
CodeOrder(n) == << <<"RESOLVE_RANGE", 0>>, <<"VALIDATE", 0>> >> \o FactorSteps(n)

\* an exception leads to ABORT, and ABORT is the last step
AbortIsFinal ==
    /\ failed # NULL <=> (phases # <<>> /\ phases[Len(phases)][1] = "ABORT")
    /\ failed # NULL => pc \in CleanupPcs
    /\ \A k \in 1..(Len(phases) - 1) : phases[k][1] # "ABORT"

\* C7 (as stated): the steps of a run are taken in the order VALIDATE,
\* RESOLVE_RANGE, then IC_AND_LAYER and PORTFOLIO factor after factor, then
\* COMMIT, and an exception leads to ABORT with no later step.
C7_SpecStepOrder == IsPrefix(StepsTaken, SpecOrder(Len(factors))) /\ AbortIsFinal

\* C7 (amended): the steps of a run are taken in the order RESOLVE_RANGE (first
\* and last score date, emptiness check, start <= end), VALIDATE (factor names),
\* then IC_AND_LAYER and PORTFOLIO factor after factor, then COMMIT, and an
\* exception leads to ABORT with no later step.
C7_CodeStepOrder == IsPrefix(StepsTaken, CodeOrder(Len(factors))) /\ AbortIsFinal

\* C7 witness: a run over two factors has committed
C7_TwoFactorsCommitted ==
    /\ pc = "log_run"
    /\ ok
    /\ Len(factors) = 2
    /\ StepsTaken = CodeOrder(2)

\* ------------------------------------------------------------ C8
\* the errors the database raises on a statement
DatabaseErrors ==
    {"database error", "conversion error", "primary key",
     "NTILE requires a positive argument"}

\* the command line is well formed: dates, range and factor names
ValidRequest ==
    /\ args.start = <<>> \/ DateOk(args.start)
    /\ args.end = <<>> \/ DateOk(args.end)
    /\ ~StartAfterEnd
    /\ ~BadFactorName

\* C8 (as stated): a run ends either committed and returning normally, or with
\* an error and rolled back; with valid factor names, a non-empty score feed and
\* no database error it commits and returns normally.
C8_CommitsOrRollsBack ==
    RunEnded =>
        /\ \/ ok /\ Tables(db) = Tables(tx)
           \/ ~ok /\ Tables(db) = Tables(pre)
        /\ (ValidRequest /\ DOMAIN score # {} /\ msg \notin DatabaseErrors) => ok

\* ------------------------------------------------------------ C9
\* C9 (as stated): a successful run that repeats the command line of the
\* preceding successful run, on the same feeds, leaves the four result tables as
\* that run left them.
C9_RecomputeIdempotent == (RunEnded /\ same /\ ok) => Tables(db) = Tables(pre)

\* ------------------------------------------------------------ C10
Succeeded == RunEnded /\ ok

\* n of day d: the eligible codes with a factor value and a forward return
EligibleN(f, d) ==
    Cardinality(OnDate(BaseCTE(score, kline, basic, f, args.ic_horizon,
                               range[1], range[2]), d))

\* the committed IC rows of (f, ic_horizon, d)
IcRowsAt(f, d) ==
    {r \in db.ic : r.factor_name = f /\ r.horizon = args.ic_horizon /\ r.trade_date = d}

\* C10 (as stated): after a successful run every day d of the range has exactly
\* one IC row of (factor, horizon, d) if n >= min_n and none if n < min_n, and
\* every stored row has n >= min_n.
C10_RowIffEnoughSample ==
    Succeeded =>
        \A i \in 1..Len(factors) : \A d \in range[1]..range[2] :
            /\ EligibleN(factors[i], d) >= args.min_n =>
                    Cardinality(IcRowsAt(factors[i], d)) = 1
            /\ EligibleN(factors[i], d) < args.min_n => IcRowsAt(factors[i], d) = {}
            /\ \A r \in IcRowsAt(factors[i], d) : r.n >= args.min_n

\* C10 (amended): after a successful run every day d of the range has exactly
\* one IC row of (factor, horizon, d), carrying n, if n >= min_n and n >= 1, and
\* none otherwise: a day without any eligible code has no row even when
\* min_n <= 0.
C10_RowIffNonEmptySample ==
    Succeeded =>
        \A i \in 1..Len(factors) : \A d \in range[1]..range[2] :
            LET n == EligibleN(factors[i], d)
                rows == IcRowsAt(factors[i], d)
            IN  IF n >= args.min_n /\ n >= 1
                THEN Cardinality(rows) = 1 /\ \A r \in rows : r.n = n
                ELSE rows = {}

\* C10 witness: one day of the range has its row, another one is below min_n
\* and has none
C10_ThinDayOmitted ==
    /\ Succeeded
    /\ \E d1, d2 \in range[1]..range[2] :
        /\ IcRowsAt(factors[1], d1) # {}
        /\ EligibleN(factors[1], d2) >= 1
        /\ EligibleN(factors[1], d2) < args.min_n
        /\ IcRowsAt(factors[1], d2) = {}

\* ------------------------------------------------------------ C11
\* the last factor has been processed and its NAV series written
SeriesWritten == pc = "commit" /\ fi >= 1

\* the market calendar of the range: the days with at least one bar
Calendar == {d \in range[1]..range[2] : \E r \in DOMAIN kline : r[1] = d}

\* the NAV points written for day d of the current portfolio
NavAt(d) == {r \in tx.nav : r.portfolio_code = portfolio_code /\ r.trade_date = d}
NavPoint(d) == CHOOSE r \in NavAt(d) : TRUE

\* the predecessor of t in the calendar
CalPred(t) == CHOOSE p \in Calendar : p < t /\ \A q \in Calendar : q < t => q <= p

\* C11: the NAV series written for the range has one point per calendar day of
\* the range and none on other days; the first calendar day has nav = 1 and a
\* null daily_ret; a later day t with calendar predecessor p has nav[t] =
\* nav[p] * (1 + r) and daily_ret[t] = r when signal day p has a portfolio return
\* r, and nav[t] = nav[p] with a null daily_ret otherwise.
C11_NavCompounding ==
    SeriesWritten =>
        /\ \A d \in range[1]..range[2] :
            Cardinality(NavAt(d)) = IF d \in Calendar THEN 1 ELSE 0
        /\ \A t \in Calendar :
            IF \A q \in Calendar : t <= q
            THEN NavPoint(t).nav = RInt(1) /\ NavPoint(t).daily_ret = NULL
            ELSE LET p == CalPred(t)
                 IN  IF p \in DOMAIN ret_map
                     THEN /\ NavPoint(t).nav =
                                RMul(NavPoint(p).nav, RAdd(RInt(1), ret_map[p].daily_ret))
                          /\ NavPoint(t).daily_ret = ret_map[p].daily_ret
                     ELSE /\ NavPoint(t).nav = NavPoint(p).nav
                          /\ NavPoint(t).daily_ret = NULL

\* C11 witness: a series of three points: 1, then compounded with the return of
\* the first day, then carried forward because the second day has no return
C11_CompoundThenCarry ==
    /\ SeriesWritten
    /\ range = <<1, 3>>
    /\ Calendar = {1, 2, 3}
    /\ DOMAIN ret_map = {1}
    /\ NavPoint(2).nav # RInt(1)
    /\ NavPoint(3).nav = NavPoint(2).nav
    /\ NavPoint(3).daily_ret = NULL

\* ------------------------------------------------------------ C12
\* the holdings written for day d of the current portfolio, as <<day, code>>
HoldAt(d) == {r \in tx.hold : r.portfolio_code = portfolio_code /\ r.trade_date = d}
HeldOn(d) == {<<d, r.ts_code>> : r \in HoldAt(d)}

\* C12 (as stated): the portfolio return of a signal day d is the average
\* nav_horizon forward return over exactly the codes written as holdings of d,
\* and hold_cnt is the number of those holdings.
C12_ReturnOverHoldings ==
    SeriesWritten =>
        \A d \in DOMAIN ret_map :
            LET H == HeldOn(d)
                ys == [q \in H |-> RetFwd(kline, range[1], range[2], q, args.nav_horizon)]
            IN  /\ ret_map[d].hold_cnt = RInt(Cardinality(H))
                /\ \A q \in H : ys[q] # NULL
                /\ ret_map[d].daily_ret = Avg(H, ys)

\* ------------------------------------------------------------ C13
\* the bar of code c on day d is neither suspended nor special-treatment
TradingOk(d, c) ==
    /\ <<d, c>> \in DOMAIN kline
    /\ ISNULL(kline[<<d, c>>].tradestatus, RInt(1)) = RInt(1)
    /\ ISNULL(kline[<<d, c>>].is_st, RInt(0)) = RInt(0)

\* C13 (as stated): no persisted holding is a code that is suspended or
\* special-treatment on its trade date.
C13_HoldingsAreTradable == \A r \in db.hold : TradingOk(r.trade_date, r.ts_code)

\* ------------------------------------------------------------ C14
\* the forward return over the complete bar sequence of the code of bar r: the
\* close of its h-th later bar, whatever the flags of the bars in between
FullSeqRet(r, h) ==
    LET later == {q \in DOMAIN kline : q[2] = r[2] /\ q[1] > r[1]}
        hit == {q \in later : Cardinality({x \in later : x[1] < q[1]}) = h - 1}
        c0 == kline[r].close
    IN  IF hit = {} \/ c0 = NULL \/ c0 = RInt(0) THEN NULL
        ELSE IF kline[CHOOSE q \in hit : TRUE].close = NULL THEN NULL
        ELSE RDiv(RSub(kline[CHOOSE q \in hit : TRUE].close, c0), c0)

\* C14 (as stated): the forward return the IC query uses for an eligible bar of
\* the range is the return to the h-th later bar of the code's complete bar
\* sequence.
C14_ReturnOverFullSequence ==
    pc = "ic_ins_layer" =>
        \A r \in RetBars(kline, range[1], range[2]) :
            Between(r[1], range[1], range[2]) =>
                RetFwd(kline, range[1], range[2], r, args.ic_horizon)
                    = FullSeqRet(r, args.ic_horizon)

\* ------------------------------------------------------------ C17
\* the codes eligible on day d: in the score cross-section and tradable
EligibleOn(d) ==
    {q \in ScoreCTE(score, basic, factors[fi], range[1], range[2]) :
        q[1] = d /\ TradingOk(d, q[2])}

\* C17 (as stated): the holdings of a day are the k codes ranked 1..k by factor
\* value descending among the day's eligible codes, k = min(topn, number of
\* eligible codes), rank_in_day takes each value 1..k once, and every weight is
\* 1/k.
C17_TopKOfEligible ==
    SeriesWritten =>
        \A d \in range[1]..range[2] :
            HoldAt(d) # {} =>
                LET X == EligibleOn(d)
                    k == IF args.topn < Cardinality(X) THEN args.topn ELSE Cardinality(X)
                    fv(q) == FactorVal(score, factors[fi], q)
                IN  /\ Cardinality(HoldAt(d)) = k
                    /\ {r.rank_in_day : r \in HoldAt(d)} = 1..k
                    /\ \A r \in HoldAt(d) : r.weight = Rat(1, k)
                    /\ HeldOn(d) \subseteq X
                    /\ \A q \in HeldOn(d) :
                        Cardinality({x \in X : ~RLeq(fv(x), fv(q))}) < k

\* ------------------------------------------------------------ C15
\* the factor value and the forward return of row q of the cross-section
CrossX(q) == FactorVal(score, CrossFactor, q)
CrossY(q) == RetFwd(kline, range[1], range[2], q, args.ic_horizon)
Ranked == cross.step # "base"

\* rk ranks the rows S by val: equal values equal ranks, a smaller value a
\* smaller rank
RanksInOrder(S, val, rk) ==
    \A p, q \in S : /\ (val[p] = val[q]) = (rk[p] = rk[q])
                    /\ (~RLeq(val[q], val[p])) = (~RLeq(rk[q], rk[p]))

\* C15 (as stated): rank 1 goes to the smallest value, ties share a rank, and the
\* next distinct value skips ahead by the size of the tie group: the rank of a
\* row is 1 + the number of rows with a smaller value.
C15_SkipAheadRanks ==
    Ranked =>
        \A q \in cross.base :
            /\ cross.rx[q] = RInt(1 + Cardinality({p \in cross.base : ~RLeq(CrossX(q), CrossX(p))}))
            /\ cross.ry[q] = RInt(1 + Cardinality({p \in cross.base : ~RLeq(CrossY(q), CrossY(p))}))

\* C15 (amended): rank 1 goes to the smallest value, ties share a rank, and the
\* next distinct value takes the next rank: the ranks of k distinct values are
\* exactly 1..k.
C15_DenseRanks ==
    Ranked =>
        /\ RanksInOrder(cross.base, [q \in cross.base |-> CrossX(q)], cross.rx)
        /\ RanksInOrder(cross.base, [q \in cross.base |-> CrossY(q)], cross.ry)
        /\ {cross.rx[q] : q \in cross.base}
            = {RInt(i) : i \in 1..Cardinality({CrossX(q) : q \in cross.base})}
        /\ {cross.ry[q] : q \in cross.base}
            = {RInt(i) : i \in 1..Cardinality({CrossY(q) : q \in cross.base})}

\* factor values x, x, y with x < y are ranked 1, 1, 2
C15_TieThenNextRank ==
    /\ Ranked
    /\ \E p, q, r \in cross.base :
        /\ p # q /\ CrossX(p) = CrossX(q) /\ ~RLeq(CrossX(r), CrossX(p))
        /\ cross.rx[p] = RInt(1) /\ cross.rx[q] = RInt(1) /\ cross.rx[r] = RInt(2)

\* ------------------------------------------------------------ C16
LayersWritten == cross.step = "done" /\ cross.layer # {}

\* the sum of the sample counts of the layer rows
RECURSIVE SumN(_)
SumN(rows) ==
    IF rows = {} THEN 0
    ELSE LET r == CHOOSE x \in rows : TRUE IN r.n + SumN(rows \ {r})

\* the size of layer l: the sample count of its row, 0 without a row
LayerSize(l) ==
    IF \E r \in cross.layer : r.layer = l
    THEN (CHOOSE r \in cross.layer : r.layer = l).n ELSE 0

\* C16: the sample counts of the day's layer rows sum to the number of codes of
\* the day's cross-section, the n of the day's IC row, and the sizes of two of
\* the `layers` layers differ by at most 1.
C16_LayerSizes ==
    LayersWritten =>
        /\ SumN(cross.layer) = Cardinality(cross.base)
        /\ \A r \in cross.ic : r.n = SumN(cross.layer)
        /\ \A a, b \in 1..cross.layers : LayerSize(a) - LayerSize(b) <= 1

\* four codes in three layers: sizes 2, 1, 1
C16_UnevenSplit ==
    /\ LayersWritten
    /\ Cardinality(cross.base) = 4 /\ cross.layers = 3 /\ cross.ic # {}
    /\ \E a, b \in cross.layer : a.n = 2 /\ b.n = 1

\* ------------------------------------------------------------ C18
IcInserted == cross.step \in {"layer", "done"}

\* a correlation <<sign of r, r * r>> lies in [-1, 1]
InUnitInterval(v) == v[1] \in {-1, 0, 1} /\ RLeq(RInt(0), v[2]) /\ RLeq(v[2], RInt(1))

\* C18: every emitted IC row has ic and rank_ic each null or within [-1, 1].
C18_CorrelationBounded ==
    IcInserted =>
        \A r \in cross.ic : /\ r.ic = NULL \/ InUnitInterval(r.ic)
                            /\ r.rank_ic = NULL \/ InUnitInterval(r.rank_ic)

\* a row over four codes whose ic is strictly between -1 and 0 and whose rank_ic
\* is another value strictly between -1 and 0
C18_PartlyCorrelated ==
    /\ IcInserted
    /\ \E r \in cross.ic :
        /\ r.n = 4
        /\ r.ic # NULL /\ r.ic[1] = -1 /\ r.ic[2] # RInt(1)
        /\ r.rank_ic # NULL /\ r.rank_ic[1] = -1 /\ r.rank_ic[2] # RInt(1)
        /\ r.rank_ic # r.ic

\* ------------------------------------------------------------ C19
\* the four flags of the candidate q
SecType(q) == basic[q[2]].sec_type
Status(q) == basic[q[2]].status
TradeStatus(q) == kline[q].tradestatus
IsSt(q) == kline[q].is_st

C20_TopLayerFirst ==
    LayersWritten =>
        /\ \A p, q \in cross.base :
            cross.lay[p] < cross.lay[q] => RLeq(CrossX(q), CrossX(p))
        /\ {r.layer : r \in cross.layer} = {cross.lay[q] : q \in cross.base}
        /\ \A r \in cross.layer :
            r.n = Cardinality({q \in cross.base : cross.lay[q] = r.layer})
        /\ Cardinality(cross.base) < cross.layers =>
            /\ {r.layer : r \in cross.layer} = 1..Cardinality(cross.base)
            /\ \A r \in cross.layer : r.n = 1

\* three codes in four layers: rows for the layers 1, 2, 3 only, the code of
\* layer 1 with a higher factor value than the code of layer 3
C20_FewerCodesThanLayers ==
    /\ LayersWritten
    /\ Cardinality(cross.base) = 3 /\ cross.layers = 4
    /\ Cardinality(cross.layer) = 3
    /\ \E p, q \in cross.base :
        cross.lay[p] = 1 /\ cross.lay[q] = 3 /\ ~RLeq(CrossX(p), CrossX(q))

\* ------------------------------------------------------------ C23
\* row r of table t lies in the key space of the run: one of its factors (or
\* portfolios), its horizon, a trade date of its range
InKeySpace(t, r) ==
    /\ range # NULL
    /\ Between(r.trade_date, range[1], range[2])
    /\ IF t \in {"ic", "layer"}
       THEN r.factor_name \in Range(factors) /\ r.horizon = args.ic_horizon
       ELSE r.portfolio_code \in
                {PortfolioCode(args.topn, f, args.nav_horizon) : f \in Range(factors)}

\* the rows of table t that a step removes from or adds to the database d
Changed(d, e, t) == (d[t] \ e[t]) \cup (e[t] \ d[t])

\* C23: a step of a run changes, in the committed database and in the run's own
\* view of it, only rows of the run's key space, and never the score, price
\* and reference feeds.
C23_OnlyOwnKeySpace ==
    [][/\ \A t \in ResultTables : \A r \in Changed(db, db', t) : InKeySpace(t, r)
       /\ pc \notin {"idle", "close"} =>
            \A t \in ResultTables : \A r \in Changed(tx, tx', t) : InKeySpace(t, r)
       /\ UNCHANGED <<score, kline, basic>>]_vars

\* a second run over a narrower range committed new rows next to the rows the
\* first run left outside that range and next to the rows of another factor
C23_ForeignRowsKept ==
    /\ Succeeded /\ runs = 1 /\ dml
    /\ \E r \in pre.ic : r \in db.ic /\ ~InKeySpace("ic", r)
    /\ \E r \in pre.nav : r \in db.nav /\ ~InKeySpace("nav", r)
    /\ \E r \in db.ic : InKeySpace("ic", r)

\* ------------------------------------------------------------ C26
\* row r of table t lies in the key space the current iteration of the factor
\* loop deletes before it inserts
InDeletedKeySpace(t, r) ==
    /\ fi \in 1..Len(factors)
    /\ Between(r.trade_date, range[1], range[2])
    /\ IF t \in {"ic", "layer"}
       THEN r.factor_name = factors[fi] /\ r.horizon = args.ic_horizon
       ELSE r.portfolio_code = portfolio_code

\* C26: no INSERT of a run fails on a primary key: every row a statement adds
\* has a key of the key space deleted just before, and the keys of a table
\* stay pairwise distinct.
C26_NoKeyInsertedTwice ==
    [][/\ msg' # "primary key"
       /\ pc \notin CleanupPcs \cup {"idle"} =>
            \A t \in ResultTables :
                /\ \A r \in tx'[t] \ tx[t] : InDeletedKeySpace(t, r)
                /\ \A r, q \in tx'[t] : PKey(t, r) = PKey(t, q) => r = q]_vars

\* a run naming the same factor twice succeeded on top of the rows an earlier
\* run left for the same keys
C26_SameFactorTwice ==
    /\ Succeeded /\ runs = 1 /\ dml
    /\ Len(factors) = 2 /\ factors[1] = factors[2]
    /\ \E t \in ResultTables : \E r \in pre[t] : InKeySpace(t, r)
    /\ \A t \in ResultTables : db[t] # {}

\* ------------------------------------------------------------ C27
\* every run so far ended successfully and left its row in the run log
AllRunsSucceeded ==
    /\ pc = "idle" /\ runs >= 1
    /\ Len(db.log) = runs
    /\ \A i \in 1..Len(db.log) : db.log[i].ok = 1

\* the stored NAV series of portfolio pcode
NavSeries(pcode) == {r \in db.nav : r.portfolio_code = pcode}

\* C27 (as stated): after successful runs the stored NAV series of a portfolio is
\* one compounding chain: nav = 1 with a null daily_ret on its earliest date,
\* and for consecutive stored dates p < t, nav[t] = nav[p] * (1 + daily_ret[t])
\* when daily_ret[t] is non-null and nav[t] = nav[p] otherwise.
C27_SingleChain ==
    AllRunsSucceeded =>
        \A pcode \in {r.portfolio_code : r \in db.nav} :
            \A t \in NavSeries(pcode) :
                LET before == {p \in NavSeries(pcode) : p.trade_date < t.trade_date}
                IN  IF before = {}
                    THEN t.nav = RInt(1) /\ t.daily_ret = NULL
                    ELSE LET p == CHOOSE x \in before :
                                    \A y \in before : y.trade_date <= x.trade_date
                         IN  IF t.daily_ret = NULL THEN t.nav = p.nav
                             ELSE t.nav = RMul(p.nav, RAdd(RInt(1), t.daily_ret))

\* ------------------------------------------------------------ C28
\* the committed layer rows of (f, ic_horizon, d)
LayerRowsAt(f, d) ==
    {r \in db.layer : r.factor_name = f /\ r.horizon = args.ic_horizon /\ r.trade_date = d}

LogInsertFailed == pc \in {"final_commit", "close"} /\ Len(tx.log) = Len(pre.log)

\* C29: from the call of log_run to the end of main, ok and msg stay what the
\* try block left, whether the INSERT of log_run fails or not; after a
\* successful commit the committed result rows stay as they are; and main
\* returns when ok and raises SystemExit otherwise.
C29_LogFailureHarmless ==
    [][/\ pc \in {"log_run", "final_commit"} => ok' = ok /\ msg' = msg
       /\ pc \in {"log_run", "final_commit"} /\ ok => Tables(db') = Tables(db)
       /\ pc = "close" => exit' = IF ok THEN "return" ELSE "SystemExit"]_vars

\* the results were committed, the INSERT of log_run failed, and main is about
\* to return normally
C29_CommittedAndLogFailed ==
    /\ RunEnded /\ ok /\ dml
    /\ LogInsertFailed
    /\ faults < MaxFaults
    /\ Tables(db) = Tables(tx) /\ Tables(db) # Tables(pre)

\* ------------------------------------------------------------ C22
\* no two codes of the cross-section share a factor value or a forward return
NoTies ==
    \A p, q \in cross.base :
        p # q => CrossX(p) # CrossX(q) /\ CrossY(p) # CrossY(q)

\* ordering the codes by factor gives the same / the reversed order as ordering
\* them by forward return
Concordant ==
    \A p, q \in cross.base : ~RLeq(CrossX(q), CrossX(p)) => ~RLeq(CrossY(q), CrossY(p))
Discordant ==
    \A p, q \in cross.base : ~RLeq(CrossX(q), CrossX(p)) => ~RLeq(CrossY(p), CrossY(q))

\* C22: on a day of n >= max(2, min_n) codes without ties, the IC row has
\* rank_ic = 1 when factor and forward return order the codes alike and
\* rank_ic = -1 when the two orders are reversed.
C22_PerfectRankIc ==
    IcInserted /\ NoTies /\ Cardinality(cross.base) >= 2
               /\ Cardinality(cross.base) >= args.min_n =>
        /\ Cardinality(cross.ic) = 1
        /\ Concordant => \A r \in cross.ic : r.rank_ic = <<1, RInt(1)>>
        /\ Discordant => \A r \in cross.ic : r.rank_ic = <<-1, RInt(1)>>

\* three codes ordered alike by factor and by return, the returns not a linear
\* function of the factor: rank_ic is 1 and ic is not
C22_ThreeConcordantCodes ==
    /\ IcInserted /\ NoTies /\ Concordant
    /\ Cardinality(cross.base) = 3
    /\ \E r \in cross.ic : r.rank_ic = <<1, RInt(1)>> /\ r.ic # r.rank_ic

\* ------------------------------------------------------------ app.run_job
\* the job codes run_job knows: jobs with a main(), the composite job, the old
\* fetch_* names
PlainJobs ==
    {"query_stock_basic", "query_history_k_data_plus", "query_dividend_data",
     "query_profit_data", "query_operation_data", "query_growth_data",
     "query_cash_flow_data", "query_balance_data", "calc_indicators", "calc_scores",
     "run_screener", "backtest_mvp"}
CompositeSeq ==
    <<"query_profit_data", "query_operation_data", "query_growth_data",
      "query_cash_flow_data", "query_balance_data">>
AliasOf ==
    [c \in {"fetch_basics", "fetch_kline", "fetch_financials"} |->
        IF c = "fetch_basics" THEN "query_stock_basic"
        ELSE IF c = "fetch_kline" THEN "query_history_k_data_plus"
        ELSE "query_financials"]
JobCodes == PlainJobs \cup {"query_financials", "fetch_announcements"} \cup DOMAIN AliasOf

\* a new activation of run_job(c): start = time.time(), ok = True, msg = ""
Frame(c) == [code |-> c, pc |-> "body", ok |-> TRUE, i |-> 1]

\* the backtest program not started: an empty database, no run, no feed rows
IdleMain ==
    /\ \E fd \in {MkFeed({}, PlainFv, NoBar)} :
        score = fd.score /\ kline = fd.kline /\ basic = fd.basic
    /\ connForm = "direct"
    /\ db = EmptyDb
    /\ tx = EmptyDb
    /\ pc = "idle"
    /\ args = BaseArgs
    /\ conn = "none"
    /\ range = NULL
    /\ factors = <<>>
    /\ fi = 0
    /\ ret_map = <<>>
    /\ out_rows = {}
    /\ ok = TRUE
    /\ msg = ""
    /\ exit = "none"
    /\ runs = 0
    /\ faults = 0
    /\ again = NULL
    /\ pre = EmptyDb
    /\ phases = <<>>
    /\ failed = NULL
    /\ dml = FALSE
    /\ same = FALSE

InitJob ==
    /\ IdleMain
    /\ cross = NoCross
    /\ flt = NoFlt
    /\ sess = NoSess
    /\ quota = NoQuota
    /\ job = [step |-> "ready", stack |-> <<>>, status |-> [c \in JobCodes |-> "none"],
              logs |-> <<>>, raised |-> {}, out |-> NULL, called |-> NULL]

jobFixed == <<mainVars, cross, flt, sess, quota>>

Top == job.stack[Len(job.stack)]
SetTop(f) == [job.stack EXCEPT ![Len(job.stack)] = f]
Pop == SubSeq(job.stack, 1, Len(job.stack) - 1)

\* a request calls run_job(c)
Job_Call ==
    /\ job.step = "ready"
    /\ \E c \in JobCodes :
        job' = [job EXCEPT !.step = "running", !.stack = <<Frame(c)>>, !.called = c]
    /\ UNCHANGED jobFixed

\* lines 387-457 without 425-435: mod.main() returns, or raises an Exception that
\* the except clause of line 485 turns into ok = False
Job_Main ==
    /\ job.step = "running" /\ job.stack # <<>>
    /\ Top.pc = "body" /\ Top.code \in PlainJobs
    /\ \E good \in BOOLEAN :
        job' = [job EXCEPT
                  !.stack = SetTop([Top EXCEPT !.pc = "status", !.ok = good]),
                  !.raised = IF good THEN @ ELSE @ \cup {Top.code}]
    /\ UNCHANGED jobFixed

\* lines 459-464 with backtest_mvp.py:659-660: main raises SystemExit, which is
\* no Exception: no except clause of run_job catches it, in this activation or
\* in a calling one
Job_MainExits ==
    /\ job.step = "running" /\ job.stack # <<>>
    /\ Top.pc = "body" /\ Top.code = "backtest_mvp"
    /\ job' = [job EXCEPT !.step = "done", !.stack = <<>>, !.out = <<"SystemExit">>,
                          !.raised = @ \cup {Top.code}]
    /\ UNCHANGED jobFixed

\* lines 425-442: the composite job calls run_job(j) for the next j and drops
\* the result; after the last one it runs the screener, which returns or raises
Job_Composite ==
    /\ job.step = "running" /\ job.stack # <<>>
    /\ Top.pc = "body" /\ Top.code = "query_financials"
    /\ IF Top.i <= Len(CompositeSeq)
       THEN job' = [job EXCEPT !.stack = Append(SetTop([Top EXCEPT !.pc = "sub"]),
                                                Frame(CompositeSeq[Top.i]))]
       ELSE \E good \in BOOLEAN :
              job' = [job EXCEPT
                        !.stack = SetTop([Top EXCEPT !.pc = "status", !.ok = good]),
                        !.raised = IF good THEN @ ELSE @ \cup {"screener"}]
    /\ UNCHANGED jobFixed

\* lines 468-473: return run_job(target), from inside the try block
Job_Alias ==
    /\ job.step = "running" /\ job.stack # <<>>
    /\ Top.pc = "body" /\ Top.code \in DOMAIN AliasOf
    /\ job' = [job EXCEPT !.stack = Append(SetTop([Top EXCEPT !.pc = "alias"]),
                                           Frame(AliasOf[Top.code]))]
    /\ UNCHANGED jobFixed

\* lines 474-477: the job that is skipped
Job_Skip ==
    /\ job.step = "running" /\ job.stack # <<>>
    /\ Top.pc = "body" /\ Top.code = "fetch_announcements"
    /\ job' = [job EXCEPT !.stack = SetTop([Top EXCEPT !.pc = "status"])]
    /\ UNCHANGED jobFixed

\* line 491 with lines 312-347: the status is kept in memory and, when the table
\* exists, written to it, a failure of the statement swallowed
Job_WriteStatus ==
    /\ job.step = "running" /\ job.stack # <<>>
    /\ Top.pc = "status"
    /\ job' = [job EXCEPT !.status[Top.code] = IF Top.ok THEN "OK" ELSE "ERR",
                          !.stack = SetTop([Top EXCEPT !.pc = "log"])]
    /\ UNCHANGED jobFixed

\* line 492 with lines 350-377
Job_WriteLog ==
    /\ job.step = "running" /\ job.stack # <<>>
    /\ Top.pc = "log"
    /\ job' = [job EXCEPT !.logs = Append(@, <<Top.code, Top.ok>>),
                          !.stack = SetTop([Top EXCEPT !.pc = "ret"])]
    /\ UNCHANGED jobFixed

\* line 494: return ok, msg, duration, to the request or to the calling
\* activation: the composite job goes on with its next sub-job, an old name
\* returns what it got
Job_Return ==
    /\ job.step = "running" /\ job.stack # <<>>
    /\ Top.pc = "ret"
    /\ IF Len(job.stack) = 1
       THEN job' = [job EXCEPT !.step = "done", !.stack = <<>>,
                               !.out = <<"return", Top.ok>>]
       ELSE LET caller == job.stack[Len(job.stack) - 1]
                back == IF caller.pc = "sub"
                        THEN [caller EXCEPT !.pc = "body", !.i = @ + 1]
                        ELSE [caller EXCEPT !.pc = "ret", !.ok = Top.ok]
            IN  job' = [job EXCEPT !.stack = [Pop EXCEPT ![Len(Pop)] = back]]
    /\ UNCHANGED jobFixed

NextJob ==
    \/ Job_Call
    \/ Job_Main
    \/ Job_MainExits
    \/ Job_Composite
    \/ Job_Alias
    \/ Job_Skip
    \/ Job_WriteStatus
    \/ Job_WriteLog
    \/ Job_Return

SpecJob == InitJob /\ [][NextJob]_vars

\* ------------------------------------------------------------ C30
\* the job code whose status and log entry the call of c is to leave
JobTarget(c) == IF c \in DOMAIN AliasOf THEN AliasOf[c] ELSE c
LogsOf(c) == {k \in 1..Len(job.logs) : job.logs[k][1] = c}
SubJobFailed(c) ==
    /\ c = "query_financials"
    /\ \E k \in 1..Len(CompositeSeq) : CompositeSeq[k] \in job.raised

\* C30 (as stated): every call of run_job with a known job code ends by
\* returning (ok, msg, duration) after writing the job status, OK or ERR as ok
\* says, and one job-log entry; a failed backtest_mvp job ends with status ERR
\* and ok = False, and the composite job query_financials reports ERR when one
\* of its sub-jobs failed.
C30_StatusAndLogWritten ==
    job.step = "done" =>
        LET c == JobTarget(job.called)
        IN  /\ job.out[1] = "return"
            /\ job.status[c] = IF job.out[2] THEN "OK" ELSE "ERR"
            /\ Cardinality(LogsOf(c)) = 1
            /\ c \in job.raised => job.status[c] = "ERR" /\ ~job.out[2]
            /\ SubJobFailed(c) => job.status[c] = "ERR"

\* ------------------------------------------------------------ common/baostock_quota
NumCallers == 2
MaxCalls == 2
MaxIncr == 2
MaxStop == 2
Callers == 1..NumCallers
BAOSTOCK_HARD_LIMIT == 100000

\* a caller between two calls
IdleCaller ==
    [pc |-> "idle", kind |-> "none", left |-> 0, cnt |-> 0, allowed |-> FALSE,
     updated |-> 0, late |-> FALSE, calls |-> 0]

\* UPDATE ... WHERE call_date = @d AND req_count < @stop: the row is changed
\* when its count is below the threshold
MayIncrementAlways(cur, stop) == TRUE

MayIncrement(cur, stop) == cur < stop

\* one day, the counter table not yet created, callers sharing one stop_at
InitQuota ==
    /\ IdleMain
    /\ cross = NoCross
    /\ flt = NoFlt
    /\ sess = NoSess
    /\ job = NoJob
    /\ \E st \in -1..MaxStop :
        quota = [step |-> "run", stop |-> st, table |-> FALSE, hasRow |-> FALSE, row |-> 0, lock |-> 0,
                 callers |-> [p \in Callers |-> IdleCaller],
                 granted |-> 0, api |-> 0, logout |-> 0, lateOk |-> TRUE, lateDone |-> 0]

quotaFixed == <<mainVars, cross, flt, sess, job>>

Caller(p) == quota.callers[p]
\* req_count of the day has reached stop_at
QuotaFull == quota.hasRow /\ quota.row >= quota.stop

\* bs_call(func) or BaoStockDailyQuota(limit).incr(n) is called
Quota_Start(p) ==
    /\ quota.step = "run"
    /\ Caller(p).pc = "idle" /\ Caller(p).calls < MaxCalls
    /\ \E kind \in {"bs_call", "incr"}, n \in 1..MaxIncr :
        /\ kind = "bs_call" => n = 1
        /\ quota' = [quota EXCEPT !.callers[p] =
                        [@ EXCEPT !.pc = "ensure", !.kind = kind, !.left = n,
                                  !.late = QuotaFull, !.calls = @ + 1]]
    /\ UNCHANGED quotaFixed

\* _ensure_table: OBJECT_ID(...) IS NULL is evaluated
Quota_EnsureTable(p) ==
    /\ quota.step = "run"
    /\ Caller(p).pc = "ensure"
    /\ quota' = [quota EXCEPT !.callers[p].pc = IF quota.table THEN "reserve" ELSE "create"]
    /\ UNCHANGED quotaFixed

\* _ensure_table: CREATE TABLE, an error when another caller has created the
\* table since; the error leaves the call without a reservation
Quota_CreateTable(p) ==
    /\ quota.step = "run"
    /\ Caller(p).pc = "create"
    /\ IF quota.table
       THEN quota' = [quota EXCEPT !.callers[p] = [@ EXCEPT !.pc = "idle", !.left = 0],
                                   !.lateOk = @ /\ ~Caller(p).late]
       ELSE quota' = [quota EXCEPT !.table = TRUE, !.callers[p].pc = "reserve"]
    /\ UNCHANGED quotaFixed

\* lines 86-93: SELECT ... WITH (UPDLOCK, HOLDLOCK) waits for the lock on the
\* day's key, keeps it until the transaction ends, and the row is inserted with
\* req_count 0 when the day has none
Quota_LockRow(p) ==
    /\ quota.step = "run"
    /\ Caller(p).pc = "reserve"
    /\ quota.lock = 0
    /\ quota' = [quota EXCEPT !.lock = p,
                              !.hasRow = TRUE,
                              !.row = IF quota.hasRow THEN @ ELSE 0,
                              !.callers[p].pc = "update"]
    /\ UNCHANGED quotaFixed

\* lines 95-103: the guarded UPDATE and @updated = @@ROWCOUNT
Quota_Update(p) ==
    /\ quota.step = "run"
    /\ Caller(p).pc = "update"
    /\ IF MayIncrement(quota.row, quota.stop)
       THEN quota' = [quota EXCEPT !.row = @ + 1,
                                   !.callers[p] = [@ EXCEPT !.pc = "select", !.updated = 1]]
       ELSE quota' = [quota EXCEPT
                                   !.callers[p] = [@ EXCEPT !.pc = "select", !.updated = 0]]
    /\ UNCHANGED quotaFixed

\* lines 105-121: SELECT req_count, @updated; the with block commits, which
\* releases the lock; cnt and allowed are returned
Quota_Commit(p) ==
    /\ quota.step = "run"
    /\ Caller(p).pc = "select"
    /\ quota' = [quota EXCEPT
                   !.lock = 0,
                   !.granted = IF Caller(p).updated = 1 THEN @ + 1 ELSE @,
                   !.callers[p] = [@ EXCEPT !.pc = "check", !.cnt = quota.row,
                                            !.allowed = (Caller(p).updated = 1)]]
    /\ UNCHANGED quotaFixed

\* lines 145-149 and 180-185 with _force_stop: bs.logout() and
\* raise BaoStockQuotaExceeded
Quota_ForceStop(p) ==
    /\ quota.step = "run"
    /\ Caller(p).pc = "check"
    /\ Caller(p).cnt >= BAOSTOCK_HARD_LIMIT \/ ~Caller(p).allowed
    /\ quota' = [quota EXCEPT !.logout = @ + 1,
                              !.lateDone = IF Caller(p).late THEN @ + 1 ELSE @,
                              !.callers[p] = [@ EXCEPT !.pc = "idle", !.left = 0]]
    /\ UNCHANGED quotaFixed

\* line 152: bs_call invokes the wrapped function; lines 178-191: incr goes on
\* with its next reservation or returns cnt
Quota_Allowed(p) ==
    /\ quota.step = "run"
    /\ Caller(p).pc = "check"
    /\ ~(Caller(p).cnt >= BAOSTOCK_HARD_LIMIT \/ ~Caller(p).allowed)
    /\ IF Caller(p).kind = "bs_call"
       THEN quota' = [quota EXCEPT !.api = @ + 1,
                                   !.lateOk = @ /\ ~Caller(p).late,
                                   !.callers[p] = [@ EXCEPT !.pc = "idle", !.left = 0]]
       ELSE quota' = [quota EXCEPT
                        !.lateOk = @ /\ ~Caller(p).late,
                        !.callers[p] = [@ EXCEPT !.pc = IF Caller(p).left > 1 THEN "ensure"
                                                        ELSE "idle",
                                                 !.left = @ - 1]]
    /\ UNCHANGED quotaFixed

NextQuota ==
    \E p \in Callers :
        \/ Quota_Start(p)
        \/ Quota_EnsureTable(p)
        \/ Quota_CreateTable(p)
        \/ Quota_LockRow(p)
        \/ Quota_Update(p)
        \/ Quota_Commit(p)
        \/ Quota_ForceStop(p)
        \/ Quota_Allowed(p)

SpecQuota == InitQuota /\ [][NextQuota]_vars

\* ------------------------------------------------------------ C25
\* the day's count is within stop_at, no more than stop_at reservations were
\* allowed, and no call begun after the count reached stop_at ended otherwise
\* than by logging out and raising BaoStockQuotaExceeded
QuotaKept ==
    /\ quota.hasRow => quota.row <= quota.stop
    /\ quota.granted = 0 \/ quota.granted <= quota.stop
    /\ quota.lateOk

\* C25 (as stated): under any interleaving of concurrent callers with the same
\* stop_at, req_count never exceeds stop_at, at most stop_at reservations return
\* allowed = True, and once req_count has reached stop_at every later call logs
\* out and raises BaoStockQuotaExceeded without invoking the wrapped function.
C25_QuotaKept ==
    quota.step = "run" => QuotaKept

\* C25 (amended): the same for a stop_at that is not negative; with a negative
\* stop_at the day's row is inserted with req_count = 0, above stop_at.
C25_QuotaKeptFromZero ==
    (quota.step = "run" /\ quota.stop >= 0) => QuotaKept

\* C25 witness: the count stands at a positive stop_at, that many reservations
\* were allowed, and a call begun afterwards was stopped.
C25_StoppedAtThreshold ==
    /\ quota.step = "run"
    /\ quota.stop >= 1 /\ quota.hasRow /\ quota.row = quota.stop /\ quota.granted = quota.stop
    /\ quota.api >= 1
    /\ quota.lateDone >= 1

\* ------------------------------------------------------------ two concurrent runs
\* Two runs of main with the same --factor, --horizon, --start and --end, each on
\* its own connection (autocommit off, READ COMMITTED with row locks).  A row of
\* the key space is a day; a row changed by an open transaction is locked by it
\* until its COMMIT or ROLLBACK.
Sessions == {1, 2}
Other(p) == 3 - p
TwoRunTables == {"ic", "layer"}
FreeRow(there) == [there |-> there, by |-> 0, op |-> "none"]
SectionPcs == {"del_layer", "ins_ic", "ins_layer", "commit"}

InitSess ==
    /\ IdleMain
    /\ cross = NoCross
    /\ flt = NoFlt
    /\ quota = NoQuota
    /\ job = NoJob
    /\ \E stored \in SUBSET Dates, days \in SUBSET Dates :
        sess = [step |-> "run",
                days |-> days,
                tab |-> [t \in TwoRunTables |-> [d \in Dates |-> FreeRow(d \in stored)]],
                pc |-> [p \in Sessions |-> "start"]]

sessFixed == <<mainVars, cross, flt, quota, job>>

\* the row of day d is in table t as session p sees it
Sees(p, t, d) ==
    LET r == sess.tab[t][d]
    IN  IF r.by = p THEN r.op \in {"ins", "delins"} ELSE r.there

\* session p's statement on table t has to wait: a row of the key space is
\* locked by the other session
CanTouchExclusive(p, t) == sess.pc[Other(p)] \notin SectionPcs

CanTouch(p, t) == \A d \in Dates : sess.tab[t][d].by \in {0, p}

\* line 597: _get_conn()
Sess_Connect(p) ==
    /\ sess.step = "run"
    /\ sess.pc[p] = "start"
    /\ sess' = [sess EXCEPT !.pc[p] = "del_ic"]
    /\ UNCHANGED sessFixed

\* lines 236-246: DELETE ... WHERE factor_name=? AND horizon=? AND trade_date
\* BETWEEN ? AND ? on the IC table, then on the layer table
Sess_Delete(p) ==
    /\ sess.step = "run"
    /\ sess.pc[p] \in {"del_ic", "del_layer"}
    /\ LET t == IF sess.pc[p] = "del_ic" THEN "ic" ELSE "layer"
       IN  /\ CanTouch(p, t)
           /\ sess' = [sess EXCEPT
                         !.tab[t] = [d \in Dates |->
                                        IF Sees(p, t, d)
                                        THEN [there |-> @[d].there, by |-> p, op |-> "del"]
                                        ELSE @[d]],
                         !.pc[p] = IF t = "ic" THEN "del_layer" ELSE "ins_ic"]
    /\ UNCHANGED sessFixed

\* lines 248-394: INSERT INTO ... SELECT of the run's rows, the IC table first;
\* a key that is there raises the primary-key error, which main catches
Sess_Insert(p) ==
    /\ sess.step = "run"
    /\ sess.pc[p] \in {"ins_ic", "ins_layer"}
    /\ LET t == IF sess.pc[p] = "ins_ic" THEN "ic" ELSE "layer"
       IN  /\ CanTouch(p, t)
           /\ IF \E d \in sess.days : Sees(p, t, d)
              THEN sess' = [sess EXCEPT !.pc[p] = "rollback"]
              ELSE sess' = [sess EXCEPT
                              !.tab[t] = [d \in Dates |->
                                            IF d \in sess.days
                                            THEN [there |-> @[d].there, by |-> p,
                                                  op |-> IF @[d].by = p THEN "delins"
                                                         ELSE "ins"]
                                            ELSE @[d]],
                              !.pc[p] = IF t = "ic" THEN "ins_layer" ELSE "commit"]
    /\ UNCHANGED sessFixed

\* line 637: conn.commit() makes the session's changes the stored rows and
\* releases its locks
Sess_Commit(p) ==
    /\ sess.step = "run"
    /\ sess.pc[p] = "commit"
    /\ sess' = [sess EXCEPT
                  !.tab = [t \in TwoRunTables |-> [d \in Dates |->
                              IF @[t][d].by = p THEN FreeRow(Sees(p, t, d)) ELSE @[t][d]]],
                  !.pc[p] = "done"]
    /\ UNCHANGED sessFixed

\* lines 639-645: conn.rollback() in the except clause undoes them
Sess_Rollback(p) ==
    /\ sess.step = "run"
    /\ sess.pc[p] = "rollback"
    /\ sess' = [sess EXCEPT
                  !.tab = [t \in TwoRunTables |-> [d \in Dates |->
                              IF @[t][d].by = p THEN FreeRow(@[t][d].there) ELSE @[t][d]]],
                  !.pc[p] = "failed"]
    /\ UNCHANGED sessFixed

NextSess ==
    \E p \in Sessions :
        \/ Sess_Connect(p)
        \/ Sess_Delete(p)
        \/ Sess_Insert(p)
        \/ Sess_Commit(p)
        \/ Sess_Rollback(p)

SpecSess == InitSess /\ [][NextSess]_vars

\* ------------------------------------------------------------ C24
\* no row of the key space is locked by the other session
NoRowLockedByOther(p) ==
    \A t \in TwoRunTables, d \in Dates : sess.tab[t][d].by # Other(p)

\* C24: nothing in a run keeps its DELETE and INSERT statements from executing
\* while the other run is between its DELETE and its COMMIT: a run at a DELETE
\* or INSERT statement can execute it wherever the other run is, unless a row
\* lock of the database makes it wait.
C24_NoMutualExclusion ==
    \A p \in Sessions :
        (/\ sess.step = "run"
         /\ sess.pc[p] \in {"del_ic", "del_layer", "ins_ic", "ins_layer"}
         /\ NoRowLockedByOther(p))
        => ENABLED (Sess_Delete(p) \/ Sess_Insert(p))

\* C24 witness: both runs are between their first DELETE and their COMMIT for
\* the same key space.
C24_BothInSection ==
    /\ sess.step = "run"
    /\ \A p \in Sessions : sess.pc[p] \in SectionPcs

\* ------------------------------------------------------------ FLOAT arithmetic of the IC statement
\* factor_val and ret_fwd are CAST to FLOAT, so the sums and the products of
\* lines 284-288 and 316-320 are binary floating-point operations, each rounded
\* to nearest, ties to even.  A float is <<m, e>>, standing for m * 2^e, with a
\* significand of at most FBits bits (53 in SQL Server's FLOAT).
FBits == 6

RECURSIVE Pow2(_)
Pow2(k) == IF k = 0 THEN 1 ELSE 2 * Pow2(k - 1)

RECURSIVE BitLen(_)
BitLen(k) == IF k = 0 THEN 0 ELSE 1 + BitLen(k \div 2)

\* the float nearest to M * 2^E
FRound(M, E) ==
    LET L == BitLen(Abs(M))
    IN  IF L <= FBits THEN <<M, E>>
        ELSE LET sh == L - FBits
                 q == Abs(M) \div Pow2(sh)
                 r == Abs(M) % Pow2(sh)
                 half == Pow2(sh - 1)
                 up == r > half \/ (r = half /\ q % 2 = 1)
                 qq == IF up THEN q + 1 ELSE q
             IN  <<IF M < 0 THEN -qq ELSE qq, E + sh>>

FInt(k) == FRound(k, 0)
FMul(a, b) == FRound(a[1] * b[1], a[2] + b[2])
FAddSub(a, b, sign) ==
    LET e0 == IF a[2] < b[2] THEN a[2] ELSE b[2]
    IN  FRound(a[1] * Pow2(a[2] - e0) + sign * b[1] * Pow2(b[2] - e0), e0)
FAdd(a, b) == FAddSub(a, b, 1)
FSub(a, b) == FAddSub(a, b, -1)
FZero == <<0, 0>>

\* SUM(...) of lines 284-288 after one more row (x, y)
NoSums == [sumx |-> FZero, sumy |-> FZero, sumx2 |-> FZero, sumy2 |-> FZero, sumxy |-> FZero]
AddRow(s, x, y) ==
    [sumx |-> FAdd(s.sumx, x), sumy |-> FAdd(s.sumy, y),
     sumx2 |-> FAdd(s.sumx2, FMul(x, x)), sumy2 |-> FAdd(s.sumy2, FMul(y, y)),
     sumxy |-> FAdd(s.sumxy, FMul(x, y))]

\* lines 316-320 and 322-327: NULL when one of the two differences is 0;
\* otherwise the quotient, SQRT of a negative product being error 3623, which
\* ends the statement and the run
FVarX(s, n) == FSub(FMul(FInt(n), s.sumx2), FMul(s.sumx, s.sumx))
FVarY(s, n) == FSub(FMul(FInt(n), s.sumy2), FMul(s.sumy, s.sumy))
IcCase(s, n) ==
    LET dx == FVarX(s, n)
        dy == FVarY(s, n)
    IN  IF dx[1] = 0 \/ dy[1] = 0 THEN "null"
        ELSE IF FMul(dx, dy)[1] < 0 THEN "error"
        ELSE "value"

\* one day's cross-section of n codes: one of factor value and forward return
\* is the same for every code, a value with a full significand, the other one
\* is 0, 1, .. n-1, and its dense rank 1 .. n
FloatValues == {m \in Pow2(FBits - 1)..(Pow2(FBits) - 1) : m % 2 = 1}

InitFloat ==
    /\ IdleMain
    /\ cross = NoCross
    /\ sess = NoSess
    /\ quota = NoQuota
    /\ job = NoJob
    /\ \E n \in 2..MaxCross, m \in FloatValues, equal \in {"factor", "return"} :
        flt = [step |-> "sum", n |-> n, equal |-> equal, same |-> <<m, 0>>, i |-> 0,
               raw |-> NoSums, rank |-> NoSums, ic |-> "none", rank_ic |-> "none"]

floatFixed == <<mainVars, cross, sess, quota, job>>

\* lines 277-310: the aggregates take in the row of the next code
Float_AddRow ==
    /\ flt.step = "sum"
    /\ flt.i < flt.n
    /\ LET k == flt.i + 1
           x == IF flt.equal = "factor" THEN flt.same ELSE FInt(k - 1)
           y == IF flt.equal = "factor" THEN FInt(k - 1) ELSE flt.same
           rx == IF flt.equal = "factor" THEN FInt(1) ELSE FInt(k)
           ry == IF flt.equal = "factor" THEN FInt(k) ELSE FInt(1)
       IN  flt' = [flt EXCEPT !.i = k, !.raw = AddRow(@, x, y), !.rank = AddRow(@, rx, ry)]
    /\ UNCHANGED floatFixed

\* lines 312-334: the SELECT list of the INSERT evaluates ic and rank_ic
Float_Ic ==
    /\ flt.step = "sum"
    /\ flt.i = flt.n
    /\ flt' = [flt EXCEPT !.step = "done", !.ic = IcCase(flt.raw, flt.n),
                          !.rank_ic = IcCase(flt.rank, flt.n)]
    /\ UNCHANGED floatFixed

NextFloat ==
    \/ Float_AddRow
    \/ Float_Ic

SpecFloat == InitFloat /\ [][NextFloat]_vars

\* ------------------------------------------------------------ C21
\* C21 (as stated): a day's anomaly degrades to null and never aborts the run:
\* on a day on which all factor values are equal, or all forward returns are
\* equal, the IC row is written with ic and rank_ic null.
C21_EqualValuesGiveNull ==
    flt.step = "done" => flt.ic = "null" /\ flt.rank_ic = "null"

=============================================================================
